---- MODULE Spec2Model ----
(***************************************************************************)
(* RemindBandit (crates/heimlern-bandits/src/lib.rs): an epsilon-greedy    *)
(* bandit over reminder slots, with its feedback, decide, snapshot and     *)
(* load operations.                                                        *)
(*                                                                         *)
(* Numbers.  f64 values are integers counted in units of one f64 step; an  *)
(* f32 value is a multiple of F32Ulp such steps.  Both formats have a      *)
(* largest finite value, signed zeros, two infinities and NaN.  u32 is the *)
(* range 0..U32Max.  Strings the code takes apart (actions, labels) are    *)
(* sequences of characters.                                                *)
(***************************************************************************)
EXTENDS Integers, Sequences, FiniteSets, TLC

\* ---------------------------------------------------------------- numbers

\* 1.0, in f64 steps
One == 10
\* distance between neighbouring f32 values, in f64 steps
F32Ulp == 2
\* f32::MAX and f64::MAX, in f64 steps
F32Max == 40
F64Max == 400
\* u32::MAX
U32Max == 3

Fin(v) == [k |-> "fin", v |-> v]
NegZero == [k |-> "nzero", v |-> 0]
NaN == [k |-> "nan", v |-> 0]
PInf == [k |-> "pinf", v |-> 0]
NInf == [k |-> "ninf", v |-> 0]

is_finite(x) == x.k \in {"fin", "nzero"}

\* the sign bit of a float
IsNeg(x) == x.k \in {"nzero", "ninf"} \/ (x.k = "fin" /\ x.v < 0)

\* p / q (q > 0) rounded to the nearest integer, ties to even
RoundDiv(p, q) ==
  LET f == p \div q
      r == p % q
  IN  IF 2 * r < q THEN f
      ELSE IF 2 * r > q THEN f + 1
      ELSE IF f % 2 = 0 THEN f ELSE f + 1

\* the float of a format with largest finite value max for the rounded
\* magnitude v; neg is the sign of the exact result (it decides the zero)
Rounded(v, neg, max) ==
  IF v > max THEN PInf
  ELSE IF v < -max THEN NInf
  ELSE IF v = 0 /\ neg THEN NegZero
  ELSE Fin(v)

\* f64::from(f32): every f32 is an f64
f64_from_f32(x) == x

\* f64 + f64
f64_add(x, y) ==
  IF x.k = "nan" \/ y.k = "nan" THEN NaN
  ELSE IF x.k = "pinf" THEN (IF y.k = "ninf" THEN NaN ELSE PInf)
  ELSE IF x.k = "ninf" THEN (IF y.k = "pinf" THEN NaN ELSE NInf)
  ELSE IF y.k \in {"pinf", "ninf"} THEN y
  ELSE Rounded(x.v + y.v, x.k = "nzero" /\ y.k = "nzero", F64Max)

\* mutant: the quotient is cut off, not rounded to nearest
f64_div_u32_truncating(x, n) ==
  IF ~is_finite(x) THEN x
  ELSE Rounded(x.v \div n, IsNeg(x), F64Max)

\* f64 / f64::from(n), n > 0
f64_div_u32(x, n) ==
  IF ~is_finite(x) THEN x
  ELSE Rounded(RoundDiv(x.v, n), IsNeg(x), F64Max)

\* f64 * f64::from(n)
f64_mul_u32(x, n) ==
  IF x.k = "nan" THEN NaN
  ELSE IF ~is_finite(x) THEN (IF n = 0 THEN NaN ELSE x)
  ELSE Rounded(x.v * n, IsNeg(x), F64Max)

\* f64 as f32
f64_as_f32(x) ==
  IF ~is_finite(x) THEN x
  ELSE Rounded(RoundDiv(x.v, F32Ulp) * F32Ulp, IsNeg(x), F32Max)

\* f32::clamp(0.0, 1.0) of a finite value
clamp01(x) ==
  IF x.k = "fin" /\ x.v < 0 THEN Fin(0)
  ELSE IF x.k = "fin" /\ x.v > One THEN Fin(One)
  ELSE x

\* mutant: a <= b in place of a < b
f32_le(a, b) ==
  IF a.k = "nan" \/ b.k = "nan" THEN FALSE
  ELSE IF a.k = "pinf" THEN b.k = "pinf"
  ELSE IF b.k = "ninf" THEN a.k = "ninf"
  ELSE IF a.k = "ninf" \/ b.k = "pinf" THEN TRUE
  ELSE a.v <= b.v

\* a < b on f32
f32_lt(a, b) ==
  IF a.k = "nan" \/ b.k = "nan" THEN FALSE
  ELSE IF a.k = "pinf" \/ b.k = "ninf" THEN FALSE
  ELSE IF a.k = "ninf" \/ b.k = "pinf" THEN TRUE
  ELSE a.v < b.v

\* f32::total_cmp on finite values, as a key: -0.0 is below +0.0
TotalKey(x) == IF x.k = "nzero" THEN -1 ELSE 2 * x.v

\* a.total_cmp(b) == Ordering::Greater
total_cmp_greater(a, b) == TotalKey(a) > TotalKey(b)

\* ---------------------------------------------------------------- strings

Prefix == <<"r", "e", "m", "i", "n", "d", ".">>
Morning == <<"m", "o", "r", "n", "i", "n", "g">>
Afternoon == <<"a", "f", "t", "e", "r", "n", "o", "o", "n">>
Evening == <<"e", "v", "e", "n", "i", "n", "g">>
None_ == <<"n", "o", "n", "e">>

DEFAULT_SLOTS == <<Morning, Afternoon, Evening>>

default_slots == DEFAULT_SLOTS

\* mutant: the first Len(p) characters are dropped without comparing them
strip_prefix_unchecked(s, p) ==
  IF Len(s) >= Len(p)
  THEN [some |-> TRUE, rest |-> SubSeq(s, Len(p) + 1, Len(s))]
  ELSE [some |-> FALSE, rest |-> <<>>]

\* str::strip_prefix
strip_prefix(s, p) ==
  IF Len(s) >= Len(p) /\ SubSeq(s, 1, Len(p)) = p
  THEN [some |-> TRUE, rest |-> SubSeq(s, Len(p) + 1, Len(s))]
  ELSE [some |-> FALSE, rest |-> <<>>]

\* Vec::contains
Contains(seq, x) == \E i \in 1..Len(seq) : seq[i] = x

\* HashMap::insert / the entry API: m with key k bound to e
MapPut(m, k, e) == [x \in (DOMAIN m) \cup {k} |-> IF x = k THEN e ELSE m[x]]

\* HashMap::new()
EmptyMap == [x \in {} |-> [pulls |-> 0, total |-> Fin(0)]]

\* ------------------------------------------------------------ the bandit

\* a RemindBandit value
Bandit(e, s, v) == [epsilon |-> e, slots |-> s, values |-> v]

\* 0.2, the epsilon of RemindBandit::default()
DefaultEpsilon == 2

DefaultBandit == Bandit(Fin(DefaultEpsilon), default_slots, EmptyMap)

\* Context values are opaque to the bandit; serialize_context echoes them
serialize_context(ctx) == [some |-> TRUE, v |-> ctx]

NoSlotsWhy == "no slots available"
InvalidRewardsWhy == "invalid rewards"
ExploreWhy == "explore ε"
ExploitWhy == "exploit"

\* mutant: the fallback action lacks the prefix
fallback_decision_bare_none(reason, ctx) ==
  [action |-> None_, score |-> Fin(0), why |-> <<reason>>,
   context |-> serialize_context(ctx)]

fallback_decision(reason, ctx) ==
  [action |-> Prefix \o None_, score |-> Fin(0), why |-> <<reason>>,
   context |-> serialize_context(ctx)]

\* mutant: the total is returned without the division
get_average_reward_sum(self, slot) ==
  IF slot \in DOMAIN self.values
  THEN LET n == self.values[slot].pulls
           v == self.values[slot].total
       IN  IF n > 0 THEN f64_as_f32(v) ELSE Fin(0)
  ELSE Fin(0)

get_average_reward(self, slot) ==
  IF slot \in DOMAIN self.values
  THEN LET n == self.values[slot].pulls
           v == self.values[slot].total
       IN  IF n > 0 THEN f64_as_f32(f64_div_u32(v, n)) ELSE Fin(0)
  ELSE Fin(0)

\* mutant: epsilon is left as it is
sanitize_keeps_epsilon(self) ==
  [epsilon |-> self.epsilon,
   values |-> [l \in DOMAIN self.values |->
                 IF is_finite(self.values[l].total) THEN self.values[l]
                 ELSE [pulls |-> self.values[l].pulls, total |-> Fin(0)]],
   slots |-> IF self.slots = <<>> THEN default_slots ELSE self.slots]

\* mutant: an empty slots list is left empty
sanitize_keeps_slots(self) ==
  [epsilon |-> IF is_finite(self.epsilon) THEN clamp01(self.epsilon) ELSE Fin(0),
   values |-> [l \in DOMAIN self.values |->
                 IF is_finite(self.values[l].total) THEN self.values[l]
                 ELSE [pulls |-> self.values[l].pulls, total |-> Fin(0)]],
   slots |-> self.slots]

sanitize(self) ==
  [epsilon |-> IF is_finite(self.epsilon) THEN clamp01(self.epsilon) ELSE Fin(0),
   values |-> [l \in DOMAIN self.values |->
                 IF is_finite(self.values[l].total) THEN self.values[l]
                 ELSE [pulls |-> self.values[l].pulls, total |-> Fin(0)]],
   slots |-> IF self.slots = <<>> THEN default_slots ELSE self.slots]

\* slots.iter().filter_map(..): the slots with a finite average, in order
Candidates(self) ==
  SelectSeq([i \in 1..Len(self.slots) |->
               [slot |-> self.slots[i],
                average |-> get_average_reward(self, self.slots[i])]],
            LAMBDA c : is_finite(c.average))

\* Iterator::max_by is a reduce that keeps the earlier element only when it
\* compares Greater
RECURSIVE max_by_from(_, _, _)
max_by_from(c, i, best) ==
  IF i > Len(c) THEN best
  ELSE max_by_from(c, i + 1,
         IF total_cmp_greater(best.average, c[i].average) THEN best ELSE c[i])

\* mutant: min_by in place of max_by
RECURSIVE min_by_from(_, _, _)
min_by_from(c, i, best) ==
  IF i > Len(c) THEN best
  ELSE min_by_from(c, i + 1,
         IF total_cmp_greater(best.average, c[i].average) THEN c[i] ELSE best)

min_by(c) ==
  IF c = <<>> THEN [some |-> FALSE, slot |-> <<>>]
  ELSE [some |-> TRUE, slot |-> min_by_from(c, 2, c[1]).slot]

\* mutant: a reduce that keeps the earlier of two equal elements
RECURSIVE max_by_first_from(_, _, _)
max_by_first_from(c, i, best) ==
  IF i > Len(c) THEN best
  ELSE max_by_first_from(c, i + 1,
         IF total_cmp_greater(c[i].average, best.average) THEN c[i] ELSE best)

max_by_first(c) ==
  IF c = <<>> THEN [some |-> FALSE, slot |-> <<>>]
  ELSE [some |-> TRUE, slot |-> max_by_first_from(c, 2, c[1]).slot]

max_by(c) ==
  IF c = <<>> THEN [some |-> FALSE, slot |-> <<>>]
  ELSE [some |-> TRUE, slot |-> max_by_from(c, 2, c[1]).slot]

\* mutant: a contextual bandit that always explores for the context "other"
decide_by_context(self, ctx, draw, pick) ==
  LET b == sanitize(self)
      explore == f32_lt(draw, b.epsilon) \/ ctx = "other"
      best == max_by(Candidates(b))
      decision(slot) ==
        [action |-> Prefix \o slot, score |-> get_average_reward(b, slot),
         why |-> <<IF explore THEN ExploreWhy ELSE ExploitWhy>>,
         context |-> serialize_context(ctx)]
  IN  IF b.slots = <<>>
      THEN [self |-> b, ret |-> fallback_decision(NoSlotsWhy, ctx)]
      ELSE IF explore
      THEN [self |-> b, ret |-> decision(b.slots[pick])]
      ELSE IF best.some
      THEN [self |-> b, ret |-> decision(best.slot)]
      ELSE [self |-> b, ret |-> fallback_decision(InvalidRewardsWhy, ctx)]

\* decide: draw is rng.gen::<f32>(), pick the index slots.choose() lands on.
\* Returns the bandit after the call and the Decision.
decide(self, ctx, draw, pick) ==
  LET b == sanitize(self)
      explore == f32_lt(draw, b.epsilon)
      best == max_by(Candidates(b))
      decision(slot) ==
        [action |-> Prefix \o slot, score |-> get_average_reward(b, slot),
         why |-> <<IF explore THEN ExploreWhy ELSE ExploitWhy>>,
         context |-> serialize_context(ctx)]
  IN  IF b.slots = <<>>
      THEN [self |-> b, ret |-> fallback_decision(NoSlotsWhy, ctx)]
      ELSE IF explore
      THEN [self |-> b, ret |-> decision(b.slots[pick])]
      ELSE IF best.some
      THEN [self |-> b, ret |-> decision(best.slot)]
      ELSE [self |-> b, ret |-> fallback_decision(InvalidRewardsWhy, ctx)]

\* mutant: reward.is_nan() in place of !reward.is_finite()
reward_rejected_nan_only(reward) == reward.k = "nan"

\* the guard of feedback on the reward: !reward.is_finite()
reward_rejected(reward) == ~is_finite(reward)

\* mutant: the push is left out
register_slot_never(slots_, slot_name) == slots_

\* if !self.slots.contains(&slot_name) { self.slots.push(slot_name.clone()) }
register_slot(slots_, slot_name) ==
  IF Contains(slots_, slot_name) THEN slots_ ELSE Append(slots_, slot_name)

\* feedback: overflow_checks is the build's setting for integer overflow
\* (a panic at entry.0 += 1 when set, wrapping when not).  Returns the bandit
\* after the call and whether the call panicked.
feedback(self, ctx, action, reward, overflow_checks) ==
  LET sp == strip_prefix(action, Prefix)
      slot_name == sp.rest
      slots1 == register_slot(self.slots, slot_name)
      entry == IF slot_name \in DOMAIN self.values THEN self.values[slot_name]
               ELSE [pulls |-> 0, total |-> Fin(0)]
      overflow == entry.pulls = U32Max
      updated == [pulls |-> IF overflow THEN 0 ELSE entry.pulls + 1,
                  total |-> f64_add(entry.total, f64_from_f32(reward))]
  IN  IF reward_rejected(reward) THEN [self |-> self, panic |-> FALSE]
      ELSE IF ~sp.some THEN [self |-> self, panic |-> FALSE]
      ELSE IF overflow /\ overflow_checks
      THEN [self |-> Bandit(self.epsilon, slots1, MapPut(self.values, slot_name, entry)),
            panic |-> TRUE]
      ELSE [self |-> Bandit(self.epsilon, slots1, MapPut(self.values, slot_name, updated)),
            panic |-> FALSE]

\* ------------------------------------------------------- snapshots (JSON)

\* A serde_json::Value as load sees it: the keys the object has (has), the
\* content of each key the decoders read, and whether "values" is a JSON
\* array (the contract form) or a JSON object (the legacy form).
Json(has, policy_id, arms, counts, values_arr, epsilon, slots, values_map, values_kind) ==
  [has |-> has, policy_id |-> policy_id, arms |-> arms, counts |-> counts,
   values_arr |-> values_arr, epsilon |-> epsilon, slots |-> slots,
   values_map |-> values_map, values_kind |-> values_kind]

\* the fields of ContractSnapshot without a default (seed is an Option)
ContractKeys == {"version", "policy_id", "ts", "arms", "counts", "values", "epsilon"}

\* the fields of RemindBandit
LegacyKeys == {"epsilon", "slots", "values"}

POLICY_ID == "remind-bandit"

\* serde_json::from_value::<ContractSnapshot>(v).is_ok()
from_value_ContractSnapshot(v) ==
  ContractKeys \subseteq v.has /\ v.values_kind = "array"

\* serde_json::from_value::<RemindBandit>(v).is_ok()
from_value_RemindBandit(v) ==
  LegacyKeys \subseteq v.has /\ v.values_kind = "object"

\* mutant: values holds the totals, not the averages
to_contract_snapshot_sums(self) ==
  LET epsilon == IF is_finite(self.epsilon) THEN clamp01(self.epsilon) ELSE Fin(0)
      arms == IF self.slots = <<>> THEN default_slots ELSE self.slots
      stat(arm) == IF arm \in DOMAIN self.values THEN self.values[arm]
                   ELSE [pulls |-> 0, total |-> Fin(0)]
      sum(arm) == IF is_finite(stat(arm).total) THEN stat(arm).total ELSE Fin(0)
  IN  Json(ContractKeys, POLICY_ID, arms,
           [i \in 1..Len(arms) |-> stat(arms[i]).pulls],
           [i \in 1..Len(arms) |-> sum(arms[i])],
           epsilon, <<>>, EmptyMap, "array")

\* mutant: only the arms that have statistics are exported
to_contract_snapshot_known_arms(self) ==
  LET epsilon == IF is_finite(self.epsilon) THEN clamp01(self.epsilon) ELSE Fin(0)
      slots0 == IF self.slots = <<>> THEN default_slots ELSE self.slots
      arms == SelectSeq(slots0, LAMBDA a : a \in DOMAIN self.values)
      avg(arm) ==
        LET n == self.values[arm].pulls
            sum == self.values[arm].total
            sanitized_sum == IF is_finite(sum) THEN sum ELSE Fin(0)
        IN  IF n > 0 THEN f64_div_u32(sanitized_sum, n) ELSE Fin(0)
  IN  Json(ContractKeys, POLICY_ID, arms,
           [i \in 1..Len(arms) |-> self.values[arms[i]].pulls],
           [i \in 1..Len(arms) |-> avg(arms[i])],
           epsilon, <<>>, EmptyMap, "array")

\* mutant: the stored total is divided as it is
to_contract_snapshot_raw_sum(self) ==
  LET epsilon == IF is_finite(self.epsilon) THEN clamp01(self.epsilon) ELSE Fin(0)
      arms == IF self.slots = <<>> THEN default_slots ELSE self.slots
      stat(arm) == IF arm \in DOMAIN self.values THEN self.values[arm]
                   ELSE [pulls |-> 0, total |-> Fin(0)]
      avg(arm) == IF stat(arm).pulls > 0
                  THEN f64_div_u32(stat(arm).total, stat(arm).pulls) ELSE Fin(0)
  IN  Json(ContractKeys, POLICY_ID, arms,
           [i \in 1..Len(arms) |-> stat(arms[i]).pulls],
           [i \in 1..Len(arms) |-> avg(arms[i])],
           epsilon, <<>>, EmptyMap, "array")

to_contract_snapshot(self) ==
  LET epsilon == IF is_finite(self.epsilon) THEN clamp01(self.epsilon) ELSE Fin(0)
      arms == IF self.slots = <<>> THEN default_slots ELSE self.slots
      stat(arm) == IF arm \in DOMAIN self.values THEN self.values[arm]
                   ELSE [pulls |-> 0, total |-> Fin(0)]
      avg(arm) ==
        LET n == stat(arm).pulls
            sum == stat(arm).total
            sanitized_sum == IF is_finite(sum) THEN sum ELSE Fin(0)
        IN  IF n > 0 THEN f64_div_u32(sanitized_sum, n) ELSE Fin(0)
  IN  Json(ContractKeys, POLICY_ID, arms,
           [i \in 1..Len(arms) |-> stat(arms[i]).pulls],
           [i \in 1..Len(arms) |-> avg(arms[i])],
           epsilon, <<>>, EmptyMap, "array")

\* mutant: the average is stored as the total, without the multiplication
RECURSIVE load_map_sums(_, _, _, _, _)
load_map_sums(arms, counts, vals, i, map) ==
  IF i > Len(arms) THEN map
  ELSE LET n == counts[i]
           avg == vals[i]
           total == IF n > 0 /\ is_finite(avg) THEN avg ELSE Fin(0)
       IN  load_map_sums(arms, counts, vals, i + 1,
                         MapPut(map, arms[i], [pulls |-> n, total |-> total]))

\* mutant: an arm that is already in the map keeps its first entry
RECURSIVE load_map_first_wins(_, _, _, _, _)
load_map_first_wins(arms, counts, vals, i, map) ==
  IF i > Len(arms) THEN map
  ELSE LET n == counts[i]
           avg == vals[i]
           total == IF n > 0 /\ is_finite(avg) THEN f64_mul_u32(avg, n) ELSE Fin(0)
       IN  load_map_first_wins(arms, counts, vals, i + 1,
             IF arms[i] \in DOMAIN map THEN map
             ELSE MapPut(map, arms[i], [pulls |-> n, total |-> total]))

\* the loop of load that rebuilds the totals: a later index overwrites an
\* earlier one with the same arm
RECURSIVE load_map(_, _, _, _, _)
load_map(arms, counts, vals, i, map) ==
  IF i > Len(arms) THEN map
  ELSE LET n == counts[i]
           avg == vals[i]
           total == IF n > 0 /\ is_finite(avg) THEN f64_mul_u32(avg, n) ELSE Fin(0)
       IN  load_map(arms, counts, vals, i + 1,
                    MapPut(map, arms[i], [pulls |-> n, total |-> total]))

\* mutant: only a missing policy id is refused
policy_id_mismatch_only_empty(snap) == snap.policy_id = ""

\* snap.policy_id != "remind-bandit"
policy_id_mismatch(snap) == snap.policy_id # POLICY_ID

\* let arms_empty = snap.arms.is_empty()
arms_empty(snap) == snap.arms = <<>>

\* mutant: the length of values is not compared
lengths_match_counts_only(snap) == Len(snap.counts) = Len(snap.arms)

\* let lengths_match = counts_len == expected_len && values_len == expected_len
lengths_match(snap) ==
  Len(snap.counts) = Len(snap.arms) /\ Len(snap.values_arr) = Len(snap.arms)

\* the epsilon load takes from a contract snapshot
load_epsilon(snap) ==
  IF is_finite(snap.epsilon) THEN clamp01(snap.epsilon) ELSE Fin(0)

\* mutant: epsilon is assigned as soon as it is computed, before the arms
\* and the lengths are validated
load_epsilon_assigned_early(self, v) ==
  IF from_value_ContractSnapshot(v)
  THEN IF policy_id_mismatch(v) THEN self
       ELSE IF arms_empty(v) \/ ~lengths_match(v)
       THEN Bandit(load_epsilon(v), self.slots, self.values)
       ELSE sanitize(Bandit(load_epsilon(v), v.arms,
                            load_map(v.arms, v.counts, v.values_arr, 1, EmptyMap)))
  ELSE IF from_value_RemindBandit(v)
  THEN sanitize(Bandit(v.epsilon, v.slots, v.values_map))
  ELSE self

\* mutant: the decoded legacy struct is taken over without sanitize
load_legacy_unsanitized(self, v) ==
  IF from_value_ContractSnapshot(v)
  THEN IF policy_id_mismatch(v) THEN self
       ELSE IF arms_empty(v) THEN self
       ELSE IF ~lengths_match(v) THEN self
       ELSE sanitize(Bandit(load_epsilon(v), v.arms,
                            load_map(v.arms, v.counts, v.values_arr, 1, EmptyMap)))
  ELSE IF from_value_RemindBandit(v)
  THEN Bandit(v.epsilon, v.slots, v.values_map)
  ELSE self

\* load: returns the bandit after the call
load(self, v) ==
  IF from_value_ContractSnapshot(v)
  THEN IF policy_id_mismatch(v) THEN self
       ELSE IF arms_empty(v) THEN self
       ELSE IF ~lengths_match(v) THEN self
       ELSE sanitize(Bandit(load_epsilon(v), v.arms,
                            load_map(v.arms, v.counts, v.values_arr, 1, EmptyMap)))
  ELSE IF from_value_RemindBandit(v)
  THEN sanitize(Bandit(v.epsilon, v.slots, v.values_map))
  ELSE self

\* ------------------------------------------------------------ the inputs

\* number of calls made on the bandit
MaxCalls == 4

LA == <<"a">>
Night == <<"n", "i", "g", "h", "t">>

\* Context values; the bandit never looks inside one
Contexts == {"ctx", "other"}

\* bandits a caller constructs: the default, and RemindBandit { epsilon,
\* slots, values: HashMap::new() } with the public fields set freely
InitBandits ==
  { DefaultBandit,
    Bandit(Fin(0), default_slots, EmptyMap),
    Bandit(Fin(0), <<LA, Night>>, EmptyMap),
    Bandit(NaN, <<>>, EmptyMap),
    Bandit(Fin(One), <<>>, EmptyMap),
    Bandit(Fin(4 * One), <<Night, LA>>, EmptyMap) }

FiniteRewards == {Fin(-F32Ulp), Fin(F32Ulp), Fin(2 * F32Ulp)}
NonFiniteRewards == {NaN, PInf, NInf}

FeedbackInputs ==
  ({Prefix \o LA, Prefix \o Evening, Afternoon} \X FiniteRewards)
    \cup ({Prefix \o LA, Prefix \o Evening} \X NonFiniteRewards)

\* rng.gen::<f32>() is in [0, 1)
Draws == {Fin(0), Fin(One - F32Ulp)}

Contract(policy_id, arms, counts, vals, eps) ==
  Json(ContractKeys, policy_id, arms, counts, vals, eps, <<>>, EmptyMap, "array")

Legacy(eps, slots_, map) ==
  Json(LegacyKeys, "", <<>>, <<>>, <<>>, eps, slots_, map, "object")

Stat(n, t) == [pulls |-> n, total |-> t]

LoadInputs ==
  { \* a foreign policy: a valid body, an invalid one, another epsilon
    Contract("other-bandit", <<LA, Night>>, <<1, 2>>, <<Fin(4), Fin(3)>>, Fin(One)),
    Contract("other-bandit", <<>>, <<1>>, <<>>, Fin(0)),
    Contract("other-bandit", <<Night>>, <<U32Max>>, <<Fin(F64Max)>>, PInf),
    \* this policy, rejected
    Contract(POLICY_ID, <<>>, <<>>, <<>>, Fin(One)),
    Contract(POLICY_ID, <<>>, <<1>>, <<Fin(4)>>, Fin(0)),
    Contract(POLICY_ID, <<LA, Night>>, <<1>>, <<Fin(4), Fin(3)>>, Fin(One)),
    Contract(POLICY_ID, <<LA, Night>>, <<1, 2>>, <<Fin(4), Fin(3), Fin(0)>>, Fin(0)),
    Contract(POLICY_ID, <<LA, Night>>, <<1, 2, 0>>, <<Fin(4)>>, Fin(0)),
    \* this policy, accepted
    Contract(POLICY_ID, <<LA, Night>>, <<1, 2>>, <<Fin(4), Fin(3)>>, Fin(0)),
    Contract(POLICY_ID, <<Night, Night>>, <<2, 1>>, <<Fin(2), Fin(6)>>, Fin(4 * One)),
    Contract(POLICY_ID, <<LA>>, <<U32Max>>, <<Fin(F64Max)>>, PInf),
    Contract(POLICY_ID, <<LA, Evening>>, <<U32Max, 1>>, <<Fin(2), NegZero>>, Fin(0)),
    Contract(POLICY_ID, <<LA, Night>>, <<1, 2>>, <<Fin(F32Max + F32Ulp), Fin(2 * F32Max)>>, Fin(0)),
    \* the legacy form
    Legacy(Fin(-One), <<LA>>, MapPut(MapPut(EmptyMap, LA, Stat(2, Fin(5))), Night, Stat(1, Fin(8)))),
    Legacy(Fin(0), <<>>, EmptyMap),
    \* neither form
    Json({}, "", <<>>, <<>>, <<>>, Fin(0), <<>>, EmptyMap, "none"),
    Json(ContractKeys \ {"ts"}, POLICY_ID, <<LA>>, <<1>>, <<Fin(4)>>, Fin(One), <<>>, EmptyMap, "array"),
    Json(ContractKeys \cup LegacyKeys, POLICY_ID, <<LA>>, <<1>>, <<>>, Fin(One), <<Night>>, EmptyMap, "object"),
    \* a contract snapshot with an invalid body that also has a "slots" key
    Json(ContractKeys \cup LegacyKeys, POLICY_ID, <<LA>>, <<1>>, <<>>, Fin(One), <<Night>>, EmptyMap, "array") }

\* ---------------------------------------------------------------- event domains

\* The longest domain and the longest label, scaled (253 and 63 in the code).
DOMAIN_MAX == 4
LABEL_MAX == 3

\* A domain is a sequence of characters. "a" stands for the ASCII letters and
\* digits, "é" for the letters outside ASCII (two bytes in UTF-8), " " for
\* white space.
DomainChars == {"a", "-", ".", "_", " ", "é"}

\* u8::is_ascii_alphanumeric, on one byte
is_ascii_alphanumeric(b) == b = "a"

\* char::is_alphanumeric: alphabetic or numeric in Unicode
is_alphanumeric(c) == c \in {"a", "é"}

\* char::is_whitespace
is_whitespace(c) == c = " "

\* str::as_bytes: the UTF-8 encoding, one element per byte
RECURSIVE as_bytes(_)
as_bytes(s) ==
  IF s = <<>> THEN <<>>
  ELSE (IF Head(s) = "é" THEN <<"0xC3", "0xA9">> ELSE <<Head(s)>>) \o as_bytes(Tail(s))

\* str::len: the length in bytes
str_len(s) == Len(as_bytes(s))

\* str::trim_start and str::trim_end
RECURSIVE trim_start(_)
trim_start(s) ==
  IF s # <<>> /\ is_whitespace(Head(s)) THEN trim_start(Tail(s)) ELSE s

RECURSIVE trim_end(_)
trim_end(s) ==
  IF s # <<>> /\ is_whitespace(s[Len(s)]) THEN trim_end(SubSeq(s, 1, Len(s) - 1)) ELSE s

\* str::trim
trim(s) == trim_end(trim_start(s))

\* split at every sep: the pieces, in order (an empty input gives one empty piece)
RECURSIVE split(_, _)
split(s, sep) ==
  IF \A i \in 1..Len(s) : s[i] # sep THEN <<s>>
  ELSE LET i == CHOOSE j \in 1..Len(s) : s[j] = sep /\ \A k \in 1..(j - 1) : s[k] # sep
       IN  <<SubSeq(s, 1, i - 1)>> \o split(SubSeq(s, i + 1, Len(s)), sep)

\* heimlern_core::event::is_valid_event_domain, which works on the bytes
is_valid_event_domain(domain) ==
  IF domain = <<>> \/ str_len(domain) > DOMAIN_MAX THEN FALSE
  ELSE LET bytes == as_bytes(domain)
           labels == split(bytes, ".")
       IN  IF bytes[1] = "." \/ bytes[Len(bytes)] = "." THEN FALSE
           ELSE \A n \in 1..Len(labels) :
                  LET label == labels[n]
                  IN  /\ ~(label = <<>> \/ Len(label) > LABEL_MAX)
                      /\ is_ascii_alphanumeric(label[1])
                      /\ is_ascii_alphanumeric(label[Len(label)])
                      /\ \A i \in 1..Len(label) :
                           is_ascii_alphanumeric(label[i]) \/ label[i] = "-"

\* is_valid_event_domain of the command line tool, which trims the domain and
\* works on the characters
cli_is_valid_event_domain(domain_arg) ==
  LET domain == trim(domain_arg)
      labels == split(domain, ".")
  IN  IF domain = <<>> \/ str_len(domain) > DOMAIN_MAX THEN FALSE
      ELSE IF \E i \in 1..Len(domain) : is_whitespace(domain[i]) THEN FALSE
      ELSE IF domain[1] = "." \/ domain[Len(domain)] = "." THEN FALSE
      ELSE \A n \in 1..Len(labels) :
             LET label == labels[n]
             IN  /\ ~(label = <<>> \/ str_len(label) > LABEL_MAX)
                 /\ is_alphanumeric(label[1])
                 /\ (str_len(label) > 1 => is_alphanumeric(label[Len(label)]))
                 /\ \A i \in 1..Len(label) : is_alphanumeric(label[i]) \/ label[i] = "-"

\* the domains handed to the two functions: every string of up to
\* DOMAIN_MAX + 1 characters
RECURSIVE Strings(_)
Strings(n) ==
  IF n = 0 THEN {<<>>}
  ELSE LET shorter == Strings(n - 1)
       IN  shorter \cup {<<c>> \o s : c \in DomainChars, s \in {t \in shorter : Len(t) = n - 1}}

Domains == Strings(DOMAIN_MAX + 1)

\* ---------------------------------------------------------------- ingest

\* u64::MAX, scaled: the cursors are 0..U64Max
U64Max == 2

\* IngestMode
IngestModes == {"Chronik", "File"}

\* Option<OffsetDateTime>, Option<u64> and Option<String>
NoTime == [some |-> FALSE, v |-> 0]
SomeTime(t) == [some |-> TRUE, v |-> t]
NoCursor == [some |-> FALSE, v |-> 0]
SomeCursor(c) == [some |-> TRUE, v |-> c]
NoError == [some |-> FALSE, v |-> <<>>]
SomeError(msg) == [some |-> TRUE, v |-> msg]

\* u64::to_string, for the cursors of the model
u64_to_string(n) == <<"0", "1", "2", "3", "4", "5", "6", "7", "8", "9">>[n + 1]

IngestState(cursor, mode, last_ok, last_error) ==
  [cursor |-> cursor, mode |-> mode, last_ok |-> last_ok, last_error |-> last_error]

\* A file is missing, holds what the last save wrote ("valid"), or holds
\* something that does not parse ("corrupt").
MissingStateFile == [kind |-> "missing", state |-> IngestState(0, "Chronik", NoTime, NoError)]
CorruptStateFile == [kind |-> "corrupt", state |-> IngestState(0, "Chronik", NoTime, NoError)]
StateFile(state) == [kind |-> "valid", state |-> state]

EventStats(total_processed, last_updated) ==
  [total_processed |-> total_processed, last_updated |-> last_updated]

\* EventStats::default (by_type and by_source, empty here, are not modelled)
EventStats_default(now_utc) == EventStats(0, now_utc)

MissingStatsFile == [kind |-> "missing", stats |-> EventStats(0, 0)]
CorruptStatsFile == [kind |-> "corrupt", stats |-> EventStats(0, 0)]
StatsFile(stats) == [kind |-> "valid", stats |-> stats]

\* What writing a file can come to: written; refused before the file is
\* touched (create_dir_all or File::create fails); or created, hence emptied,
\* and then not written to the end (to_writer_pretty fails).
IoOutcomes == {"ok", "denied", "torn"}

IoError == <<"io error">>

\* Result<bool>: Ok(has_more), or Err with the messages of the error, the
\* outermost context first
IngestOk(has_more) == [ok |-> TRUE, has_more |-> has_more, err |-> <<>>]
IngestErr(chain) == [ok |-> FALSE, has_more |-> FALSE, err |-> chain]

\* IngestState::load: Ok(None) without a file, Err for a file that does not
\* parse or is of the other mode
IngestState_load(file, expected_mode) ==
  IF file.kind = "missing" THEN [ok |-> TRUE, some |-> FALSE, state |-> file.state]
  ELSE IF file.kind = "corrupt" THEN [ok |-> FALSE, some |-> FALSE, state |-> file.state]
  ELSE IF file.state.mode # expected_mode
       THEN [ok |-> FALSE, some |-> FALSE, state |-> file.state]
  ELSE [ok |-> TRUE, some |-> TRUE, state |-> file.state]

\* IngestState::save: the result and the file afterwards
IngestState_save(state, file, io) ==
  IF io = "ok" THEN [ok |-> TRUE, file |-> StateFile(state)]
  ELSE IF io = "denied" THEN [ok |-> FALSE, file |-> file]
  ELSE [ok |-> FALSE, file |-> CorruptStateFile]

\* EventStats::load: Ok(default) without a file, Err for a file that does not
\* parse
EventStats_load(file, now_utc) ==
  IF file.kind = "missing" THEN [ok |-> TRUE, stats |-> EventStats_default(now_utc)]
  ELSE IF file.kind = "corrupt" THEN [ok |-> FALSE, stats |-> file.stats]
  ELSE [ok |-> TRUE, stats |-> file.stats]

\* EventStats::save
EventStats_save(stats, file, io) ==
  IF io = "ok" THEN [ok |-> TRUE, file |-> StatsFile(stats)]
  ELSE IF io = "denied" THEN [ok |-> FALSE, file |-> file]
  ELSE [ok |-> FALSE, file |-> CorruptStatsFile]

\* FetchResult; events is the number of events fetched
FetchResult(events, next_cursor, has_more) ==
  [events |-> events, next_cursor |-> next_cursor, has_more |-> has_more]

\* Result<FetchResult>
FetchOk(fetch_result) == [ok |-> TRUE, fetch |-> fetch_result, err |-> <<>>]
FetchErr(msg) == [ok |-> FALSE, fetch |-> FetchResult(0, NoCursor, FALSE), err |-> msg]

MissingCursorMsg == <<"Protocol Error: has_more=true but next_cursor is missing.">>

StalledCursorMsg(cursor) ==
  <<"Protocol Error: Stalled cursor ", u64_to_string(cursor), " with has_more=true">>

\* record_state_error: the state saved keeps the last_ok of the state file,
\* when that loads, and carries the message
record_state_error_clearing(state_file, mode, cursor, err_msg, io) ==
  IngestState_save(IngestState(cursor, mode, NoTime, SomeError(err_msg)), state_file, io)

record_state_error(state_file, mode, cursor, err_msg, io) ==
  LET loaded == IngestState_load(state_file, mode)
      old_last_ok == IF loaded.ok /\ loaded.some THEN loaded.state.last_ok ELSE NoTime
      state == IngestState(cursor, mode, old_last_ok, SomeError(err_msg))
  IN  IngestState_save(state, state_file, io)

\* fetch_result.next_cursor.is_none() && fetch_result.has_more
missing_cursor_never(fetch_result) == FALSE

missing_cursor(fetch_result) == ~fetch_result.next_cursor.some /\ fetch_result.has_more

\* nc == *current_cursor && fetch_result.has_more
stalled_without_has_more(fetch_result, current_cursor) ==
  fetch_result.next_cursor.some /\ fetch_result.next_cursor.v = current_cursor

stalled(fetch_result, current_cursor) ==
  /\ fetch_result.next_cursor.some
  /\ fetch_result.next_cursor.v = current_cursor
  /\ fetch_result.has_more

\* if nc != *current_cursor { *current_cursor = nc; }; without a next_cursor
\* the cursor stays
advance_cursor_never(next_cursor, current_cursor) == current_cursor

advance_cursor(next_cursor, current_cursor) ==
  IF next_cursor.some /\ next_cursor.v # current_cursor THEN next_cursor.v
  ELSE current_cursor

\* process_ingest: the result, the two files and *current_cursor afterwards.
\* now_utc is the clock; stats_io and state_io are what saving the stats
\* file and saving the state file come to.
process_ingest(source_result, state_file, stats_file, current_cursor, mode, now_utc, stats_io, state_io) ==
  IF source_result.ok
  THEN LET fetch_result == source_result.fetch
           loaded == EventStats_load(stats_file, now_utc)
           before == IF loaded.ok THEN loaded.stats ELSE EventStats_default(now_utc)
           stats == EventStats(before.total_processed + fetch_result.events, now_utc)
           stats_saved == EventStats_save(stats, stats_file, stats_io)
       IN  IF ~stats_saved.ok
           THEN [ret |-> IngestErr(<<<<"Failed to save stats">>, IoError>>),
                 state_file |-> state_file, stats_file |-> stats_saved.file,
                 current_cursor |-> current_cursor]
           ELSE IF missing_cursor(fetch_result)
           THEN [ret |-> IngestErr(<<MissingCursorMsg>>),
                 state_file |-> record_state_error(state_file, mode, current_cursor,
                                                   MissingCursorMsg, state_io).file,
                 stats_file |-> stats_saved.file,
                 current_cursor |-> current_cursor]
           ELSE IF stalled(fetch_result, current_cursor)
           THEN [ret |-> IngestErr(<<StalledCursorMsg(current_cursor)>>),
                 state_file |-> record_state_error(state_file, mode, current_cursor,
                                                   StalledCursorMsg(current_cursor),
                                                   state_io).file,
                 stats_file |-> stats_saved.file,
                 current_cursor |-> current_cursor]
           ELSE LET cursor == advance_cursor(fetch_result.next_cursor, current_cursor)
                    saved == IngestState_save(
                               IngestState(cursor, mode, SomeTime(now_utc), NoError),
                               state_file, state_io)
                IN  [ret |-> IF saved.ok THEN IngestOk(fetch_result.has_more)
                             ELSE IngestErr(<<<<"Failed to save state">>, IoError>>),
                     state_file |-> saved.file, stats_file |-> stats_saved.file,
                     current_cursor |-> cursor]
  ELSE [ret |-> IngestErr(<<<<"Ingestion cycle failed">>>> \o source_result.err),
        state_file |-> record_state_error(state_file, mode, current_cursor,
                                          source_result.err[1], state_io).file,
        stats_file |-> stats_file,
        current_cursor |-> current_cursor]

\* if batches_processed >= max_batches { break; }
max_batches_exceeded(batches_processed, max_batches) == batches_processed > max_batches

max_batches_reached(batches_processed, max_batches) == batches_processed >= max_batches

\* fetch_file on a readable file: everything from line offset on is read,
\* blank lines are counted and skipped; offset.checked_add(lines_read) fails
\* beyond u64::MAX
fetch_file(offset, lines_read, blank) ==
  IF offset + lines_read > U64Max THEN FetchErr(<<<<"Cursor overflow">>>>)
  ELSE FetchOk(FetchResult(lines_read - blank, SomeCursor(offset + lines_read), FALSE))

\* ---------------------------------------------------------------- feedback analysis

\* The f32 values of the analyzer (rates, confidences, thresholds) are counted
\* in thousandths: Fin(Milli) is 1.0. Quotients are cut to a thousandth.
Milli == 1000

CONFIDENCE_HIGH_PATTERN == 700
CONFIDENCE_LOW_PATTERN == 500
CONFIDENCE_SAMPLE_WEIGHT == 400
CONFIDENCE_PATTERN_WEIGHT == 600
SIMULATION_ESTIMATED_IMPROVEMENT == 150
PATTERN_HIGH_FAILURE_THRESHOLD == 600
PATTERN_OVERALL_FAILURE_THRESHOLD == 500
ADJUSTMENT_FAILURE_THRESHOLD == 500
ADJUSTMENT_EPSILON_DELTA == -50

\* the two thresholds that count outcomes, scaled (50 and 5 in the code)
CONFIDENCE_SAMPLE_SIZE_PLATEAU == 4
PATTERN_MIN_DECISIONS_PER_ACTION == 2

\* DecisionOutcome: the action, the classification and the success flag (the
\* other fields do not enter the analysis of proposals)
DecisionOutcome(action, outcome, success) ==
  [action |-> action, outcome |-> outcome, success |-> success]

NoAction == [some |-> FALSE, v |-> ""]
SomeAction(a) == [some |-> TRUE, v |-> a]

\* OutcomeStatistics
OutcomeStatistics(total, successes, failures) ==
  [total |-> total, successes |-> successes, failures |-> failures]

\* f32::clamp(0.0, 1.0) in thousandths: NaN stays NaN
clamp_unit(x) ==
  IF x.k = "nan" THEN x
  ELSE IF x.k = "ninf" THEN Fin(0)
  ELSE IF x.k = "pinf" THEN Fin(Milli)
  ELSE IF x.v < 0 THEN Fin(0)
  ELSE IF x.v > Milli THEN Fin(Milli)
  ELSE Fin(x.v)

\* FeedbackAnalyzer::new
FeedbackAnalyzer_new(min_decisions, min_confidence) ==
  [min_decisions |-> min_decisions, min_confidence |-> clamp_unit(min_confidence)]

\* the debug_assert of outcome_is_success fails: a Success that is marked
\* unsuccessful, a Failure that is marked successful
marked_inconsistently(outcome) ==
  \/ outcome.outcome = "Success" /\ ~outcome.success
  \/ outcome.outcome = "Failure" /\ outcome.success

\* outcome_is_success that trusts the success flag whatever the classification
outcome_is_success_by_flag(outcome) == outcome.success

\* outcome_is_success, where it returns
outcome_is_success(outcome) ==
  IF outcome.outcome = "Success" THEN TRUE
  ELSE IF outcome.outcome = "Failure" THEN FALSE
  ELSE outcome.success

\* summarize_outcomes
RECURSIVE summarize_outcomes(_)
summarize_outcomes(outcomes) ==
  IF outcomes = <<>> THEN OutcomeStatistics(0, 0, 0)
  ELSE LET stats == summarize_outcomes(SubSeq(outcomes, 1, Len(outcomes) - 1))
           outcome == outcomes[Len(outcomes)]
       IN  IF outcome_is_success(outcome)
           THEN OutcomeStatistics(stats.total + 1, stats.successes + 1, stats.failures)
           ELSE OutcomeStatistics(stats.total + 1, stats.successes, stats.failures + 1)

\* the outcomes with the key, in order
RECURSIVE with_action(_, _)
with_action(outcomes, key) ==
  IF outcomes = <<>> THEN <<>>
  ELSE (IF Head(outcomes).action = SomeAction(key) THEN <<Head(outcomes)>> ELSE <<>>)
         \o with_action(Tail(outcomes), key)

\* the keys of aggregate_outcomes(outcomes, |o| o.action.clone())
action_keys(outcomes) ==
  {outcomes[i].action.v : i \in {j \in 1..Len(outcomes) : outcomes[j].action.some}}

\* aggregate_outcomes by action: outcomes without an action are left out
aggregate_outcomes(outcomes) ==
  [key \in action_keys(outcomes) |-> summarize_outcomes(with_action(outcomes, key))]

\* OutcomeStatistics::success_rate and failure_rate
success_rate(stats) ==
  IF stats.total = 0 THEN 0 ELSE (Milli * stats.successes) \div stats.total

failure_rate(stats) ==
  IF stats.total = 0 THEN 0 ELSE Milli - success_rate(stats)

ActionPattern(action, rate) == [kind |-> "High failure rate for action", action |-> action, rate |-> rate]
OverallPattern(rate) == [kind |-> "Overall failure rate is high", action |-> "", rate |-> rate]

\* the patterns of the actions, in the order the map is iterated in
RECURSIVE action_patterns(_, _)
action_patterns(by_action, order) ==
  IF order = <<>> THEN <<>>
  ELSE LET stats == by_action[Head(order)]
       IN  (IF /\ stats.total >= PATTERN_MIN_DECISIONS_PER_ACTION
               /\ failure_rate(stats) > PATTERN_HIGH_FAILURE_THRESHOLD
            THEN <<ActionPattern(Head(order), failure_rate(stats))>>
            ELSE <<>>) \o action_patterns(by_action, Tail(order))

\* analyze_patterns; order is the order in which the HashMap hands out the
\* actions
analyze_patterns(self, outcomes, order) ==
  IF Len(outcomes) < self.min_decisions THEN <<>>
  ELSE LET overall_stats == summarize_outcomes(outcomes)
       IN  action_patterns(aggregate_outcomes(outcomes), order)
             \o (IF /\ overall_stats.total >= self.min_decisions
                    /\ failure_rate(overall_stats) > PATTERN_OVERALL_FAILURE_THRESHOLD
                 THEN <<OverallPattern(failure_rate(overall_stats))>>
                 ELSE <<>>)

\* the confidence of propose_adjustment
confidence_of(outcomes, patterns) ==
  LET ratio == (Milli * Len(outcomes)) \div CONFIDENCE_SAMPLE_SIZE_PLATEAU
      sample_confidence == IF ratio < Milli THEN ratio ELSE Milli
      pattern_confidence == IF Len(patterns) >= 2 THEN CONFIDENCE_HIGH_PATTERN
                            ELSE CONFIDENCE_LOW_PATTERN
  IN  clamp_unit(Fin((sample_confidence * CONFIDENCE_SAMPLE_WEIGHT
                        + pattern_confidence * CONFIDENCE_PATTERN_WEIGHT) \div Milli))

NoProposal ==
  [basis_policy |-> "", deltas |-> {}, confidence |-> Fin(0), decisions_analyzed |-> 0,
   failure_rate_before |-> 0, failure_rate_after_sim |-> 0, patterns |-> <<>>,
   reasoning |-> <<>>, status |-> ""]

\* Option<WeightAdjustmentProposal>, or the panic of a debug_assert
ProposalNone == [panic |-> FALSE, some |-> FALSE, proposal |-> NoProposal]
ProposalSome(p) == [panic |-> FALSE, some |-> TRUE, proposal |-> p]
ProposalPanic == [panic |-> TRUE, some |-> FALSE, proposal |-> NoProposal]

max0(x) == IF x < 0 THEN 0 ELSE x

\* propose_adjustment; debug_assertions tells whether the build checks its
\* debug_assert
propose_adjustment(self, basis_policy, outcomes, order, debug_assertions) ==
  IF Len(outcomes) < self.min_decisions THEN ProposalNone
  ELSE IF debug_assertions /\ \E i \in 1..Len(outcomes) : marked_inconsistently(outcomes[i])
  THEN ProposalPanic
  ELSE LET patterns == analyze_patterns(self, outcomes, order)
           overall_stats == summarize_outcomes(outcomes)
           confidence == confidence_of(outcomes, patterns)
           high == failure_rate(overall_stats) > ADJUSTMENT_FAILURE_THRESHOLD
       IN  IF patterns = <<>> THEN ProposalNone
           ELSE IF f32_lt(confidence, self.min_confidence) THEN ProposalNone
           ELSE ProposalSome(
                  [basis_policy |-> basis_policy,
                   deltas |-> IF high THEN {<<"epsilon", ADJUSTMENT_EPSILON_DELTA>>} ELSE {},
                   confidence |-> confidence,
                   decisions_analyzed |-> Len(outcomes),
                   failure_rate_before |-> failure_rate(overall_stats),
                   failure_rate_after_sim |->
                     max0(failure_rate(overall_stats) - SIMULATION_ESTIMATED_IMPROVEMENT),
                   patterns |-> patterns,
                   reasoning |-> IF high
                                 THEN <<"Reduce exploration due to high failure rate">>
                                 ELSE <<>>,
                   status |-> "Proposed"])

\* the inputs of the analysis
MaxOutcomes == 4

OutcomeKinds ==
  {DecisionOutcome(SomeAction("a"), "Success", TRUE),
   DecisionOutcome(SomeAction("a"), "Failure", FALSE),
   DecisionOutcome(SomeAction("a"), "Partial", TRUE),
   DecisionOutcome(SomeAction("a"), "Success", FALSE),
   DecisionOutcome(SomeAction("b"), "Failure", FALSE),
   DecisionOutcome(NoAction, "Failure", FALSE)}

RECURSIVE OutcomeSeqs(_)
OutcomeSeqs(n) ==
  IF n = 0 THEN {<<>>}
  ELSE LET shorter == OutcomeSeqs(n - 1)
       IN  shorter \cup {<<o>> \o s : o \in OutcomeKinds, s \in {t \in shorter : Len(t) = n - 1}}

MinDecisions == {0, 3}

MinConfidences == {NaN, Fin(-100), Fin(500), Fin(2 * Milli)}

\* the orders in which a map with these keys can be iterated
Orders(keys) ==
  {order \in UNION {[1..n -> keys] : n \in {Cardinality(keys)}} :
     \A i, j \in 1..Len(order) : i # j => order[i] # order[j]}

\* the outcomes handed to aggregate_outcomes and summarize_outcomes: every
\* classification with either flag for the action "a", some for "b" and for
\* outcomes without an action
MaxStatOutcomes == 3

StatOutcomeKinds ==
  {DecisionOutcome(SomeAction("a"), t, f) :
     t \in {"Success", "Failure", "Partial", "Unknown"}, f \in BOOLEAN}
    \cup {DecisionOutcome(SomeAction("b"), "Partial", FALSE),
          DecisionOutcome(SomeAction("b"), "Unknown", TRUE),
          DecisionOutcome(SomeAction("b"), "Success", TRUE),
          DecisionOutcome(NoAction, "Failure", FALSE),
          DecisionOutcome(NoAction, "Unknown", TRUE)}

RECURSIVE StatOutcomeSeqs(_)
StatOutcomeSeqs(n) ==
  IF n = 0 THEN {<<>>}
  ELSE LET shorter == StatOutcomeSeqs(n - 1)
       IN  shorter \cup {<<o>> \o s : o \in StatOutcomeKinds,
                                      s \in {t \in shorter : Len(t) = n - 1}}

\* ---------------------------------------------------------------- state

VARIABLES
  epsilon,   \* RemindBandit::epsilon
  slots,     \* RemindBandit::slots
  values,    \* RemindBandit::values
  pc,        \* the caller: "idle", "returned" (a call has just returned) or "panicked"
  call,      \* the call that has just returned: its arguments and result
  old,       \* the bandit as it was when that call was made
  ncalls,    \* calls made so far
  ipc,               \* main of the command line tool: "idle", "chronik", "file", "ok" or "err"
  cli,               \* the arguments of the run
  current_cursor,    \* current_cursor of main
  batches_processed, \* batches_processed of main
  state_file,        \* the state file
  stats_file,        \* the stats file
  now,               \* the clock: the time of the last cycle
  cycle,             \* the last call of process_ingest: its arguments and result
  fetches,           \* fetches made in this run
  last_success,      \* the last cycle that returned Ok: its time and mode, and whether
                     \* the state file has held a state of that mode ever since
  domain,            \* the domain handed to is_valid_event_domain
  valid,             \* what the two implementations returned for it
  analyzer,          \* the FeedbackAnalyzer
  outcomes,          \* the outcomes handed to propose_adjustment
  proposed,          \* the last call of propose_adjustment: its arguments and result
  statistics         \* the last call of aggregate_outcomes or summarize_outcomes

bandit_vars == <<epsilon, slots, values, pc, call, old, ncalls>>

ingest_vars ==
  <<ipc, cli, current_cursor, batches_processed, state_file, stats_file, now, cycle, fetches,
    last_success>>

domain_vars == <<domain, valid>>

analyzer_vars == <<analyzer, outcomes, proposed, statistics>>

vars ==
  <<epsilon, slots, values, pc, call, old, ncalls, ipc, cli, current_cursor, batches_processed,
    state_file, stats_file, now, cycle, fetches, last_success, domain, valid, analyzer,
    outcomes, proposed, statistics>>

self_ == Bandit(epsilon, slots, values)

NoDecision ==
  [action |-> <<>>, score |-> Fin(0), why |-> <<>>, context |-> [some |-> FALSE, v |-> ""]]

NoJson == Json({}, "", <<>>, <<>>, <<>>, Fin(0), <<>>, EmptyMap, "none")

\* no bandit: the value of call.restored when nothing was restored
NoBandit == Bandit(Fin(0), <<>>, EmptyMap)

NoCall ==
  [op |-> "none", ctx |-> "", action |-> <<>>, reward |-> Fin(0), value |-> NoJson,
   draw |-> Fin(0), pick |-> 0, decision |-> NoDecision, snapshot |-> NoJson,
   restored |-> NoBandit]

NoCli == [mode |-> "Chronik", cursor |-> NoCursor, max_batches |-> 0]

\* no cycle has returned Ok
NoSuccess == [some |-> FALSE, v |-> 0, mode |-> "Chronik", intact |-> FALSE]

NoCycle ==
  [op |-> "none", source_result |-> FetchErr(<<>>), stats_io |-> "ok", state_io |-> "ok",
   current_cursor |-> 0, state_file |-> MissingStateFile, ret |-> IngestOk(FALSE)]

\* no ingest run was started
IngestIdle ==
  /\ ipc = "idle"
  /\ cli = NoCli
  /\ current_cursor = 0
  /\ batches_processed = 0
  /\ state_file = MissingStateFile
  /\ stats_file = MissingStatsFile
  /\ now = 0
  /\ cycle = NoCycle
  /\ fetches = 0
  /\ last_success = NoSuccess

NoVerdict == [done |-> FALSE, core |-> FALSE, cli |-> FALSE]

\* no domain was validated
DomainIdle == domain = <<>> /\ valid = NoVerdict

NotProposed ==
  [done |-> FALSE, basis_policy |-> "", debug_assertions |-> FALSE, ret |-> ProposalNone]

\* no statistics were asked for
NoStatistics ==
  [op |-> "none", debug_assertions |-> FALSE, panic |-> FALSE,
   by_action |-> aggregate_outcomes(<<>>), overall |-> OutcomeStatistics(0, 0, 0)]

\* no analysis was asked for
AnalyzerIdle ==
  /\ analyzer = FeedbackAnalyzer_new(0, Fin(0))
  /\ outcomes = <<>>
  /\ proposed = NotProposed
  /\ statistics = NoStatistics

Init ==
  /\ \E b \in InitBandits :
       /\ epsilon = b.epsilon
       /\ slots = b.slots
       /\ values = b.values
       /\ old = b
  /\ pc = "idle"
  /\ call = NoCall
  /\ ncalls = 0
  /\ IngestIdle
  /\ DomainIdle
  /\ AnalyzerIdle

\* the bandit becomes b, and the call is recorded
Returns(b, c) ==
  /\ epsilon' = b.epsilon
  /\ slots' = b.slots
  /\ values' = b.values
  /\ old' = self_
  /\ call' = c
  /\ ncalls' = ncalls + 1
  /\ UNCHANGED <<ingest_vars, domain_vars, analyzer_vars>>

CanCall == pc = "idle" /\ ncalls < MaxCalls

Decide(ctx, draw, pick) ==
  /\ CanCall
  /\ pick \in 1..Len(sanitize(self_).slots)
  /\ LET r == decide(self_, ctx, draw, pick)
         explored == r.ret.why = <<ExploreWhy>>
     IN  /\ explored \/ pick = 1
         /\ Returns(r.self, [NoCall EXCEPT !.op = "decide", !.ctx = ctx, !.draw = draw,
                                           !.pick = IF explored THEN pick ELSE 0,
                                           !.decision = r.ret])
  /\ pc' = "returned"

Feedback(ctx, action, reward, overflow_checks) ==
  /\ CanCall
  /\ LET r == feedback(self_, ctx, action, reward, overflow_checks)
     IN  /\ Returns(r.self, [NoCall EXCEPT !.op = "feedback", !.ctx = ctx,
                                           !.action = action, !.reward = reward])
         /\ pc' = IF r.panic THEN "panicked" ELSE "returned"

Snapshot ==
  /\ CanCall
  /\ Returns(self_, [NoCall EXCEPT !.op = "snapshot", !.snapshot = to_contract_snapshot(self_)])
  /\ pc' = "returned"

Load(v) ==
  /\ CanCall
  /\ Returns(load(self_, v), [NoCall EXCEPT !.op = "load", !.value = v])
  /\ pc' = "returned"

\* let snapshot = bandit.snapshot(); let mut restored =
\* RemindBandit::default(); restored.load(snapshot): the bandit stays, the
\* restored one is handed to the caller
Roundtrip ==
  /\ CanCall
  /\ LET snapshot == to_contract_snapshot(self_)
     IN  Returns(self_, [NoCall EXCEPT !.op = "roundtrip", !.snapshot = snapshot,
                                       !.restored = load(DefaultBandit, snapshot)])
  /\ pc' = "returned"

\* the caller is done with the result of the call
Return ==
  /\ pc = "returned"
  /\ pc' = "idle"
  /\ call' = NoCall
  /\ old' = self_
  /\ UNCHANGED <<epsilon, slots, values, ncalls>>
  /\ UNCHANGED <<ingest_vars, domain_vars, analyzer_vars>>

Next ==
  \/ \E ctx \in Contexts, draw \in Draws, pick \in 1..(Len(slots) + Len(default_slots)) :
       Decide(ctx, draw, pick)
  \/ \E ctx \in Contexts, in \in FeedbackInputs, oc \in BOOLEAN :
       Feedback(ctx, in[1], in[2], oc)
  \/ Snapshot
  \/ \E v \in LoadInputs : Load(v)
  \/ Roundtrip
  \/ Return

Spec == Init /\ [][Next]_vars

\* the calls on a bandit that starts as RemindBandit::default()
InitDefault == Init /\ self_ = DefaultBandit

SpecDefault == InitDefault /\ [][Next]_vars

\* a constructed bandit that only receives decide and feedback calls (and is
\* copied through a snapshot, which leaves it as it is)
NextFeedback ==
  \/ \E ctx \in Contexts, draw \in Draws, pick \in 1..(Len(slots) + Len(default_slots)) :
       Decide(ctx, draw, pick)
  \/ \E ctx \in Contexts, in \in FeedbackInputs, oc \in BOOLEAN :
       Feedback(ctx, in[1], in[2], oc)
  \/ Roundtrip
  \/ Return

SpecFeedback == Init /\ [][NextFeedback]_vars

\* bandits as the tests of the crate set them up, with epsilon and the
\* stored totals written directly: any float, not only a valid one
CorruptEpsilons ==
  {NaN, PInf, NInf, NegZero, Fin(-F32Ulp), Fin(0), Fin(DefaultEpsilon), Fin(One),
   Fin(One + F32Ulp)}

CorruptStats ==
  {Stat(n, t) : n \in {0, 1, U32Max}, t \in {Fin(5), Fin(-4), NegZero, NaN, PInf, NInf}}

CorruptBandits ==
  {Bandit(e, s, v) :
     e \in CorruptEpsilons,
     s \in {<<>>, <<LA>>, <<Night, LA>>},
     v \in {EmptyMap}
            \cup {MapPut(EmptyMap, LA, st) : st \in CorruptStats}
            \cup {MapPut(MapPut(EmptyMap, LA, st), Night, Stat(2, PInf)) : st \in CorruptStats}}

InitSnapshot ==
  /\ \E b \in CorruptBandits :
       /\ epsilon = b.epsilon
       /\ slots = b.slots
       /\ values = b.values
       /\ old = b
  /\ pc = "idle"
  /\ call = NoCall
  /\ ncalls = 0
  /\ IngestIdle
  /\ DomainIdle
  /\ AnalyzerIdle

NextSnapshot ==
  \/ Snapshot
  \/ Return

\* snapshot as a function of the bandit, whatever its fields hold
SpecSnapshot == InitSnapshot /\ [][NextSnapshot]_vars

\* ---------------------------------------------------------------- ingest runs

\* one run of `heimlern ingest chronik` or `heimlern ingest file` after the
\* other, on one state file and one stats file

\* bounds of the ingest runs: cycles in all, and max_batches of one run
MaxCycles == 3
MaxBatches == 2

\* the state files a run can find
InitStateFiles ==
  {MissingStateFile, CorruptStateFile}
    \cup {StateFile(IngestState(1, m, t, e)) :
            m \in IngestModes, t \in {NoTime, SomeTime(0)},
            e \in {NoError, SomeError(<<"Failed to fetch">>)}}

InitIngest ==
  /\ epsilon = DefaultBandit.epsilon
  /\ slots = DefaultBandit.slots
  /\ values = DefaultBandit.values
  /\ old = DefaultBandit
  /\ pc = "idle"
  /\ call = NoCall
  /\ ncalls = 0
  /\ DomainIdle
  /\ AnalyzerIdle
  /\ ipc = "idle"
  /\ cli = NoCli
  /\ current_cursor = 0
  /\ batches_processed = 0
  /\ state_file \in InitStateFiles
  /\ stats_file \in {MissingStatsFile, CorruptStatsFile}
  /\ now = 0
  /\ cycle = NoCycle
  /\ fetches = 0
  /\ last_success = NoSuccess

\* main up to the loop: the cursor of the command line, else the cursor of
\* the state file when that loads, else 0
Start(mode, cursor, max_batches) ==
  /\ ipc = "idle"
  /\ now + max_batches <= MaxCycles
  /\ (mode = "File" => now < MaxCycles /\ max_batches = 0)
  /\ LET loaded == IngestState_load(state_file, mode)
     IN  current_cursor' = IF cursor.some THEN cursor.v
                           ELSE IF loaded.ok /\ loaded.some THEN loaded.state.cursor
                           ELSE 0
  /\ cli' = [mode |-> mode, cursor |-> cursor, max_batches |-> max_batches]
  /\ batches_processed' = 0
  /\ fetches' = 0
  /\ cycle' = NoCycle
  /\ ipc' = IF mode = "Chronik" THEN "chronik" ELSE "file"
  /\ UNCHANGED <<state_file, stats_file, now, last_success>>
  /\ UNCHANGED <<bandit_vars, domain_vars, analyzer_vars>>

\* one call of process_ingest at time now + 1, and what it leaves behind
Cycle(source_result, stats_io, state_io) ==
  LET r == process_ingest(source_result, state_file, stats_file, current_cursor, cli.mode,
                          now + 1, stats_io, state_io)
  IN  /\ now' = now + 1
      /\ state_file' = r.state_file
      /\ stats_file' = r.stats_file
      /\ current_cursor' = r.current_cursor
      /\ fetches' = fetches + 1
      /\ last_success' =
           IF r.ret.ok
           THEN [some |-> TRUE, v |-> now + 1, mode |-> cli.mode, intact |-> TRUE]
           ELSE [last_success EXCEPT
                   !.intact = /\ last_success.intact
                              /\ cli.mode = last_success.mode
                              /\ r.state_file.kind = "valid"]
      /\ cycle' = [op |-> "process_ingest", source_result |-> source_result,
                   stats_io |-> stats_io, state_io |-> state_io,
                   current_cursor |-> current_cursor, state_file |-> state_file,
                   ret |-> r.ret]
      /\ batches_processed' = IF r.ret.ok THEN batches_processed + 1 ELSE batches_processed
      /\ ipc' = IF ~r.ret.ok THEN "err"
                ELSE IF cli.mode = "Chronik" /\ r.ret.has_more THEN "chronik"
                ELSE "ok"
      /\ UNCHANGED cli
      /\ UNCHANGED <<bandit_vars, domain_vars, analyzer_vars>>

\* the loop of the Chronik run stops at max_batches
MaxBatchesReached ==
  /\ ipc = "chronik"
  /\ max_batches_reached(batches_processed, cli.max_batches)
  /\ ipc' = "ok"
  /\ UNCHANGED <<cli, current_cursor, batches_processed, state_file, stats_file, now, cycle,
                 fetches, last_success>>
  /\ UNCHANGED <<bandit_vars, domain_vars, analyzer_vars>>

\* one more batch of the Chronik run: whatever fetch_chronik returns
ChronikBatch(source_result, stats_io, state_io) ==
  /\ ipc = "chronik"
  /\ ~max_batches_reached(batches_processed, cli.max_batches)
  /\ Cycle(source_result, stats_io, state_io)

\* the one cycle of the file run
FileCycle(source_result, stats_io, state_io) ==
  /\ ipc = "file"
  /\ Cycle(source_result, stats_io, state_io)

\* the process ends; the files stay
Exit ==
  /\ ipc \in {"ok", "err"}
  /\ ipc' = "idle"
  /\ cycle' = NoCycle
  /\ UNCHANGED <<cli, current_cursor, batches_processed, state_file, stats_file, now, fetches,
                 last_success>>
  /\ UNCHANGED <<bandit_vars, domain_vars, analyzer_vars>>

\* what fetch_chronik can return: any response of the server, or an error
ChronikFetches ==
  {FetchOk(FetchResult(n, c, m)) :
     n \in {0}, c \in {NoCursor} \cup {SomeCursor(x) : x \in 0..U64Max}, m \in BOOLEAN}
    \cup {FetchErr(<<<<"Failed to fetch">>>>)}

\* what fetch_file can return from offset on
FileFetches(offset) ==
  {fetch_file(offset, n, b) : n \in 0..1, b \in 0..0}
    \cup {fetch_file(offset, 1, 1), FetchErr(<<<<"Failed to open input file">>>>)}

ChronikLoop ==
  \/ \E r \in ChronikFetches, stats_io \in IoOutcomes, state_io \in IoOutcomes :
       ChronikBatch(r, stats_io, state_io)
  \/ MaxBatchesReached

NextIngest ==
  \/ \E mode \in IngestModes, cursor \in {NoCursor, SomeCursor(0)},
        max_batches \in 0..MaxBatches :
       Start(mode, cursor, max_batches)
  \/ ChronikLoop
  \/ \E r \in FileFetches(current_cursor), stats_io \in IoOutcomes, state_io \in IoOutcomes :
       FileCycle(r, stats_io, state_io)
  \/ Exit

SpecIngest == InitIngest /\ [][NextIngest]_vars

\* Chronik runs only, on a state file that is missing or was left by a
\* Chronik run
InitChronik ==
  /\ InitIngest
  /\ state_file \in {MissingStateFile,
                     StateFile(IngestState(1, "Chronik", SomeTime(0), NoError))}
  /\ stats_file = MissingStatsFile

NextChronik ==
  \/ \E cursor \in {NoCursor, SomeCursor(0)}, max_batches \in 0..MaxBatches :
       Start("Chronik", cursor, max_batches)
  \/ ChronikLoop
  \/ Exit

\* every fetch returns (fetch_chronik sets a timeout of 10 s) and the files are
\* local, so a loop that can take a step takes it
FairSpecChronik == InitChronik /\ [][NextChronik]_vars /\ WF_vars(ChronikLoop)

\* ---------------------------------------------------------------- domain validation

BanditIdle ==
  /\ epsilon = DefaultBandit.epsilon
  /\ slots = DefaultBandit.slots
  /\ values = DefaultBandit.values
  /\ old = DefaultBandit
  /\ pc = "idle"
  /\ call = NoCall
  /\ ncalls = 0

InitDomain ==
  /\ BanditIdle
  /\ IngestIdle
  /\ AnalyzerIdle
  /\ domain \in Domains
  /\ valid = NoVerdict

\* the domain is handed to the function of heimlern-core and to the one of the
\* command line tool
Validate ==
  /\ ~valid.done
  /\ valid' = [done |-> TRUE, core |-> is_valid_event_domain(domain),
               cli |-> cli_is_valid_event_domain(domain)]
  /\ UNCHANGED <<domain, bandit_vars, ingest_vars, analyzer_vars>>

SpecDomain == InitDomain /\ [][Validate]_vars

\* ---------------------------------------------------------------- proposals

InitAnalyzer ==
  /\ BanditIdle
  /\ IngestIdle
  /\ DomainIdle
  /\ \E min_decisions \in MinDecisions, min_confidence \in MinConfidences :
       analyzer = FeedbackAnalyzer_new(min_decisions, min_confidence)
  /\ outcomes \in OutcomeSeqs(MaxOutcomes)
  /\ proposed = NotProposed
  /\ statistics = NoStatistics

\* analyzer.propose_adjustment(basis_policy, &outcomes)
Propose(basis_policy, order, debug_assertions) ==
  /\ ~proposed.done
  /\ proposed' = [done |-> TRUE, basis_policy |-> basis_policy,
                  debug_assertions |-> debug_assertions,
                  ret |-> propose_adjustment(analyzer, basis_policy, outcomes, order,
                                             debug_assertions)]
  /\ UNCHANGED <<analyzer, outcomes, statistics, bandit_vars, ingest_vars, domain_vars>>

NextAnalyzer ==
  \E basis_policy \in {"policy-a", "policy-b"}, order \in Orders(action_keys(outcomes)),
     debug_assertions \in BOOLEAN :
    Propose(basis_policy, order, debug_assertions)

SpecAnalyzer == InitAnalyzer /\ [][NextAnalyzer]_vars

\* ---------------------------------------------------------------- statistics

InitStatistics ==
  /\ BanditIdle
  /\ IngestIdle
  /\ DomainIdle
  /\ analyzer = FeedbackAnalyzer_new(0, Fin(0))
  /\ outcomes \in StatOutcomeSeqs(MaxStatOutcomes)
  /\ proposed = NotProposed
  /\ statistics = NoStatistics

\* analyzer.aggregate_outcomes(&outcomes, |o| o.action.clone()): only the
\* outcomes with a key are classified, and a build with debug assertions
\* panics on one of them that is marked inconsistently
Aggregate(debug_assertions) ==
  /\ statistics.op = "none"
  /\ LET panic == /\ debug_assertions
                  /\ \E i \in 1..Len(outcomes) :
                       outcomes[i].action.some /\ marked_inconsistently(outcomes[i])
     IN  statistics' =
           [op |-> "aggregate_outcomes", debug_assertions |-> debug_assertions,
            panic |-> panic,
            by_action |-> IF panic THEN aggregate_outcomes(<<>>)
                          ELSE aggregate_outcomes(outcomes),
            overall |-> OutcomeStatistics(0, 0, 0)]
  /\ UNCHANGED <<analyzer, outcomes, proposed, bandit_vars, ingest_vars, domain_vars>>

\* self.summarize_outcomes(outcomes), the overall summary of analyze_patterns
\* and propose_adjustment
Summarize(debug_assertions) ==
  /\ statistics.op = "none"
  /\ LET panic == /\ debug_assertions
                  /\ \E i \in 1..Len(outcomes) : marked_inconsistently(outcomes[i])
     IN  statistics' =
           [op |-> "summarize_outcomes", debug_assertions |-> debug_assertions,
            panic |-> panic,
            by_action |-> aggregate_outcomes(<<>>),
            overall |-> IF panic THEN OutcomeStatistics(0, 0, 0)
                        ELSE summarize_outcomes(outcomes)]
  /\ UNCHANGED <<analyzer, outcomes, proposed, bandit_vars, ingest_vars, domain_vars>>

NextStatistics ==
  \E debug_assertions \in BOOLEAN :
    \/ Aggregate(debug_assertions)
    \/ Summarize(debug_assertions)

SpecStatistics == InitStatistics /\ [][NextStatistics]_vars

\* ---------------------------------------------------------------- claims

\* the bandit is as it was when the call was made
Unchanged == epsilon = old.epsilon /\ slots = old.slots /\ values = old.values

Returned(op) == pc # "idle" /\ call.op = op

\* an epsilon brought into [0, 1]: not finite gives 0
ClampedEpsilon(e) ==
  IF e.k \in {"nan", "pinf", "ninf"} THEN Fin(0)
  ELSE IF e.v < 0 THEN Fin(0)
  ELSE IF e.v > One THEN Fin(One)
  ELSE e

\* C1: load of a value that parses as a contract snapshot whose policy_id is
\* not "remind-bandit" leaves epsilon, slots and values exactly as they were,
\* whatever the other fields of the snapshot hold.
C1_ForeignPolicyLeavesState ==
  (Returned("load") /\ ContractKeys \subseteq call.value.has
     /\ call.value.values_kind = "array" /\ call.value.policy_id # "remind-bandit")
    => Unchanged

\* a foreign snapshot that would pass every other check was loaded into a
\* bandit that has statistics and other slots
C1_Witness ==
  /\ Returned("load") /\ ContractKeys \subseteq call.value.has
  /\ call.value.values_kind = "array" /\ call.value.policy_id # "remind-bandit"
  /\ call.value.arms # <<>>
  /\ Len(call.value.counts) = Len(call.value.arms)
  /\ Len(call.value.values_arr) = Len(call.value.arms)
  /\ DOMAIN old.values # {}
  /\ old.slots # call.value.arms

\* the contract snapshot of the last load call names this policy and has no
\* arms, or counts or values of another length than arms
InvalidBody(v) ==
  /\ ContractKeys \subseteq v.has /\ v.values_kind = "array"
  /\ v.policy_id = "remind-bandit"
  /\ \/ Len(v.arms) = 0
     \/ Len(v.counts) # Len(v.arms)
     \/ Len(v.values_arr) # Len(v.arms)

\* C2: load of a contract snapshot of this policy whose arms list is empty,
\* or whose counts or values differ in length from arms, is rejected in
\* full: epsilon, slots and every arm's pulls and total_reward stay.
C2_InvalidBodyLeavesState ==
  (Returned("load") /\ InvalidBody(call.value)) => Unchanged

\* a snapshot with matching counts and one value too many was loaded into a
\* bandit that has statistics
C2_Witness ==
  /\ Returned("load") /\ InvalidBody(call.value)
  /\ Len(call.value.arms) > 0
  /\ Len(call.value.counts) = Len(call.value.arms)
  /\ Len(call.value.values_arr) > Len(call.value.arms)
  /\ DOMAIN old.values # {}
  /\ old.epsilon # ClampedEpsilon(call.value.epsilon)

\* epsilon, slots and the arms of values all come from the contract
\* snapshot v
ReplacedFromContract(v) ==
  /\ epsilon = ClampedEpsilon(v.epsilon)
  /\ slots = v.arms
  /\ DOMAIN values = {v.arms[i] : i \in 1..Len(v.arms)}
  /\ \A l \in DOMAIN values :
       \E i \in 1..Len(v.arms) : v.arms[i] = l /\ values[l].pulls = v.counts[i]

\* epsilon, slots and the arms of values all come from the legacy snapshot v
ReplacedFromLegacy(v) ==
  /\ epsilon = ClampedEpsilon(v.epsilon)
  /\ slots = IF v.slots = <<>> THEN DEFAULT_SLOTS ELSE v.slots
  /\ DOMAIN values = DOMAIN v.values_map
  /\ \A l \in DOMAIN values : values[l].pulls = v.values_map[l].pulls

IsContract(v) == ContractKeys \subseteq v.has /\ v.values_kind = "array"
IsLegacy(v) == LegacyKeys \subseteq v.has /\ v.values_kind = "object"

\* C3: load never overwrites a part of the state: after it returns, epsilon,
\* slots and values are all unchanged or all three come from the one decoded
\* snapshot; a value that decodes in neither form leaves all three unchanged.
C3_LoadIsAllOrNothing ==
  Returned("load") =>
    /\ \/ Unchanged
       \/ IsContract(call.value) /\ ReplacedFromContract(call.value)
       \/ ~IsContract(call.value) /\ IsLegacy(call.value) /\ ReplacedFromLegacy(call.value)
    /\ (~IsContract(call.value) /\ ~IsLegacy(call.value)) => Unchanged

\* a load replaced epsilon, slots and values of a bandit that had statistics
C3_Witness ==
  /\ Returned("load")
  /\ epsilon # old.epsilon /\ slots # old.slots /\ values # old.values
  /\ DOMAIN old.values # {}

\* total_reward / pulls in f64, 0 for an arm without pulls or statistics
Average64(slot) ==
  IF slot \in DOMAIN values /\ values[slot].pulls > 0
  THEN f64_div_u32(values[slot].total, values[slot].pulls)
  ELSE Fin(0)

\* the average decide works with: Average64 narrowed to f32
Average32(slot) == get_average_reward(self_, slot)

\* x > y for finite floats
Higher(x, y) == x.v > y.v

\* C4, as claimed: with epsilon = 0, in a state reached from a constructed
\* bandit by feedback calls, decide returns "remind.<s>" for a slot s such
\* that no slot has a strictly higher total_reward / pulls.
C4_Original_MaximalAverage ==
  (Returned("decide") /\ old.epsilon = Fin(0)) =>
    \E i \in 1..Len(slots) :
      /\ call.decision.action = Prefix \o slots[i]
      /\ \A j \in 1..Len(slots) : ~Higher(Average64(slots[j]), Average64(slots[i]))

\* C4, amended: with epsilon = 0, in a state reached from a constructed
\* bandit by feedback calls, decide returns "remind.<s>" for a slot s such
\* that no slot has a strictly higher average reward, the average being
\* total_reward / pulls narrowed to f32 (0 when never pulled).
C4_MaximalAverageF32 ==
  (Returned("decide") /\ old.epsilon = Fin(0)) =>
    \E i \in 1..Len(slots) :
      /\ call.decision.action = Prefix \o slots[i]
      /\ \A j \in 1..Len(slots) : ~Higher(Average32(slots[j]), Average32(slots[i]))

\* decide with epsilon = 0 chose among arms that have feedback and
\* different averages
C4_Witness ==
  /\ Returned("decide") /\ old.epsilon = Fin(0)
  /\ \E s, t \in DOMAIN values :
       /\ call.decision.action = Prefix \o s
       /\ Contains(slots, t)
       /\ values[s].pulls > 0 /\ values[t].pulls > 0
       /\ Higher(Average32(t), Fin(0))
       /\ Higher(Average32(s), Average32(t))

\* the indices of the slots whose average is finite and greatest in the
\* order decide compares in (f32::total_cmp: -0.0 is below +0.0)
MaxIndices ==
  {i \in 1..Len(slots) :
     /\ is_finite(Average32(slots[i]))
     /\ \A j \in 1..Len(slots) :
          is_finite(Average32(slots[j]))
            => TotalKey(Average32(slots[j])) <= TotalKey(Average32(slots[i]))}

First(S) == CHOOSE i \in S : \A j \in S : i <= j
Last(S) == CHOOSE i \in S : \A j \in S : j <= i

\* C5, as claimed: with epsilon = 0, when several slots share the maximal
\* average, decide returns the one that comes first in slots.
C5_Original_TieToFirst ==
  (Returned("decide") /\ old.epsilon = Fin(0) /\ Cardinality(MaxIndices) > 1)
    => call.decision.action = Prefix \o slots[First(MaxIndices)]

\* C5, amended: with epsilon = 0, when several slots share the maximal
\* average, decide returns the one that comes last in slots.
C5_TieToLast ==
  (Returned("decide") /\ old.epsilon = Fin(0) /\ Cardinality(MaxIndices) > 1)
    => call.decision.action = Prefix \o slots[Last(MaxIndices)]

\* decide with epsilon = 0 resolved a tie between different arms that have
\* feedback
C5_Witness ==
  /\ Returned("decide") /\ old.epsilon = Fin(0) /\ Cardinality(MaxIndices) > 1
  /\ slots[First(MaxIndices)] # slots[Last(MaxIndices)]
  /\ slots[First(MaxIndices)] \in DOMAIN values
  /\ slots[Last(MaxIndices)] \in DOMAIN values
  /\ values[slots[Last(MaxIndices)]].pulls > 0

\* C6: decide never fails: in every state and for every context it returns
\* a Decision whose action is "remind." followed by a label that is in slots
\* after the call, or the fallback "remind.none" with score 0 and a why that
\* names the reason.
C6_DecideAlwaysDecides ==
  Returned("decide") =>
    /\ pc = "returned"
    /\ \/ \E i \in 1..Len(slots) : call.decision.action = Prefix \o slots[i]
       \/ /\ call.decision.action = Prefix \o <<"n", "o", "n", "e">>
          /\ call.decision.score = Fin(0)
          /\ call.decision.why \in {<<"no slots available">>, <<"invalid rewards">>}

\* decide fell back because no arm has a finite average
C6_Witness ==
  /\ Returned("decide")
  /\ call.decision.action = Prefix \o <<"n", "o", "n", "e">>
  /\ call.decision.why = <<"invalid rewards">>
  /\ \A i \in 1..Len(slots) : call.decision.action # Prefix \o slots[i]

NonFinite(x) == x.k \in {"nan", "pinf", "ninf"}

\* the action starts with "remind."
HasPrefix(a) == Len(a) >= Len(Prefix) /\ \A i \in 1..Len(Prefix) : a[i] = Prefix[i]

\* the label an action with the prefix names
LabelOf(a) == [i \in 1..(Len(a) - Len(Prefix)) |-> a[Len(Prefix) + i]]

\* C7: feedback with a reward that is NaN or an infinity is a no-op:
\* epsilon, slots and every arm's pulls and total_reward stay, and an action
\* that names an unknown arm does not register it.
C7_NonFiniteRewardIsNoOp ==
  (Returned("feedback") /\ NonFinite(call.reward)) => (Unchanged /\ pc = "returned")

\* feedback with a non-finite reward named an arm that is not in slots, on a
\* bandit that has statistics
C7_Witness ==
  /\ Returned("feedback") /\ NonFinite(call.reward)
  /\ HasPrefix(call.action)
  /\ \A i \in 1..Len(slots) : slots[i] # LabelOf(call.action)
  /\ DOMAIN old.values # {}

\* C8: feedback with an action that does not start with "remind." is a
\* no-op: epsilon, slots and the statistics stay and no arm is created.
C8_NoPrefixIsNoOp ==
  (Returned("feedback") /\ ~HasPrefix(call.action)) => (Unchanged /\ pc = "returned")

\* feedback with a finite reward and an action without the prefix, on a
\* bandit that has statistics
C8_Witness ==
  /\ Returned("feedback") /\ ~HasPrefix(call.action) /\ is_finite(call.reward)
  /\ Len(call.action) >= Len(Prefix)
  /\ DOMAIN old.values # {}

\* the statistics of an arm before the last call: (0, 0.0) for a new arm
OldStat(l) == IF l \in DOMAIN old.values THEN old.values[l] ELSE Stat(0, Fin(0))

\* C9: feedback with a finite reward and an action "remind.<label>" raises
\* the pulls of <label> by exactly 1 and its total_reward by exactly the
\* reward, and leaves epsilon and every other arm's statistics as they were.
C9_FeedbackCountsOnePull ==
  (Returned("feedback") /\ is_finite(call.reward) /\ HasPrefix(call.action)) =>
    LET l == LabelOf(call.action)
    IN  /\ pc = "returned"
        /\ epsilon = old.epsilon
        /\ DOMAIN values = DOMAIN old.values \cup {l}
        /\ values[l].pulls = OldStat(l).pulls + 1
        /\ is_finite(values[l].total)
        /\ values[l].total.v = OldStat(l).total.v + call.reward.v
        /\ \A m \in DOMAIN old.values : m # l => values[m] = old.values[m]

\* C9 without the count: what feedback does to the total, to epsilon and to
\* the other arms
C9_FeedbackAddsReward ==
  (Returned("feedback") /\ is_finite(call.reward) /\ HasPrefix(call.action)) =>
    LET l == LabelOf(call.action)
    IN  /\ epsilon = old.epsilon
        /\ DOMAIN values = DOMAIN old.values \cup {l}
        /\ OldStat(l).pulls < U32Max => values[l].pulls = OldStat(l).pulls + 1
        /\ pc = "returned" =>
             /\ is_finite(values[l].total)
             /\ values[l].total.v = OldStat(l).total.v + call.reward.v
        /\ \A m \in DOMAIN old.values : m # l => values[m] = old.values[m]

\* C10: feedback with a finite reward for a label that is not in slots
\* appends it to slots and keeps the entries there and their order, feedback
\* for a label in slots leaves slots as it is; and decide with epsilon = 0
\* returns a slot whose average is above that of every other slot.
C10_UnknownArmIsRegistered ==
  /\ (Returned("feedback") /\ is_finite(call.reward) /\ HasPrefix(call.action)) =>
       LET l == LabelOf(call.action)
       IN  IF \E i \in 1..Len(old.slots) : old.slots[i] = l
           THEN slots = old.slots
           ELSE slots = old.slots \o <<l>>
  /\ (Returned("decide") /\ old.epsilon = Fin(0)) =>
       \A i \in 1..Len(slots) :
         (\A j \in 1..Len(slots) :
            slots[j] # slots[i] =>
              /\ is_finite(Average32(slots[j]))
              /\ Higher(Average32(slots[i]), Average32(slots[j])))
           => (is_finite(Average32(slots[i])) => call.decision.action = Prefix \o slots[i])

\* decide with epsilon = 0 returned an arm that feedback had added to the
\* default slots
C10_Witness ==
  /\ Returned("decide") /\ old.epsilon = Fin(0)
  /\ call.decision.action = Prefix \o LA
  /\ slots = DEFAULT_SLOTS \o <<LA>>
  /\ Higher(Average32(LA), Fin(0))

\* the statistics of an arm in the restored bandit: (0, 0.0) without an entry
RestoredStat(l) ==
  IF l \in DOMAIN call.restored.values THEN call.restored.values[l] ELSE Stat(0, Fin(0))

\* the arms of the bandit the last call was made on
OldArms == {old.slots[i] : i \in 1..Len(old.slots)} \cup DOMAIN old.values

\* a finite epsilon within [0, 1]
EpsilonInRange(e) == e.k = "nzero" \/ (e.k = "fin" /\ e.v >= 0 /\ e.v <= One)

Abs(n) == IF n < 0 THEN -n ELSE n

\* C11, as claimed: for a bandit reached from a constructed one by feedback
\* calls, with epsilon in [0, 1], loading its snapshot into a fresh default
\* bandit gives the same epsilon, the same slots in the same order and, for
\* every arm, the same pulls and the same total_reward.
C11_Original_RoundTripExact ==
  (Returned("roundtrip") /\ EpsilonInRange(old.epsilon)) =>
    /\ call.restored.epsilon = old.epsilon
    /\ call.restored.slots = old.slots
    /\ \A l \in OldArms :
         /\ RestoredStat(l).pulls = OldStat(l).pulls
         /\ RestoredStat(l).total = OldStat(l).total

\* C11, amended: the restored bandit has the same epsilon, the same slots in
\* the same order (the default slots for an empty slots list) and for every
\* arm the same pulls; its total_reward is (total_reward / pulls) * pulls,
\* which is within the rounding of the division times pulls of the original
\* total, and 0 for an arm whose pulls is 0.
C11_RoundTripWithinRounding ==
  (Returned("roundtrip") /\ EpsilonInRange(old.epsilon)) =>
    /\ call.restored.epsilon = old.epsilon
    /\ call.restored.slots = (IF old.slots = <<>> THEN DEFAULT_SLOTS ELSE old.slots)
    /\ \A l \in OldArms :
         /\ RestoredStat(l).pulls = OldStat(l).pulls
         /\ IF OldStat(l).pulls > 0
            THEN /\ RestoredStat(l).total.k = "fin"
                 /\ 2 * Abs(RestoredStat(l).total.v - OldStat(l).total.v) <= OldStat(l).pulls
            ELSE RestoredStat(l).total = Fin(0)

\* a round trip of a bandit with feedback gave an arm the same pulls and
\* another total than it had
C11_Witness ==
  /\ Returned("roundtrip") /\ EpsilonInRange(old.epsilon)
  /\ \E l \in DOMAIN old.values :
       /\ old.values[l].pulls > 1
       /\ RestoredStat(l).pulls = old.values[l].pulls
       /\ RestoredStat(l).total # old.values[l].total

\* the action decide returns for bandit b once its epsilon is set to 0
ExploitAction(b) == decide([b EXCEPT !.epsilon = Fin(0)], "ctx", Fin(0), 1).ret.action

\* arm l is ranked below arm m by the averages of bandit b
RankedBelow(b, l, m) ==
  LET x == get_average_reward(b, l)
      y == get_average_reward(b, m)
  IN  is_finite(x) /\ is_finite(y) /\ TotalKey(x) < TotalKey(y)

C13_SnapshotExportsSlotsInOrder ==
  Returned("snapshot") =>
    LET s == call.snapshot
        arms == IF old.slots = <<>> THEN <<Morning, Afternoon, Evening>> ELSE old.slots
    IN  /\ s.arms = arms
        /\ Len(s.counts) = Len(arms)
        /\ Len(s.values_arr) = Len(arms)
        /\ \A i \in 1..Len(arms) :
             /\ s.counts[i] = OldStat(arms[i]).pulls
             /\ s.values_arr[i] =
                  (IF OldStat(arms[i]).pulls > 0
                   THEN f64_div_u32(OldStat(arms[i]).total, OldStat(arms[i]).pulls)
                   ELSE Fin(0))

\* snapshot of a bandit whose slots are not in alphabetical order, the
\* first without statistics and the second with several pulls
C13_Witness ==
  /\ Returned("snapshot")
  /\ old.slots = <<Night, LA>>
  /\ Night \notin DOMAIN old.values
  /\ LA \in DOMAIN old.values /\ old.values[LA].pulls > 1
  /\ call.snapshot.counts = <<0, old.values[LA].pulls>>
  /\ call.snapshot.values_arr[2] # Fin(0)

\* v is a contract snapshot that load accepts
AcceptedContract(v) ==
  /\ IsContract(v) /\ v.policy_id = "remind-bandit"
  /\ Len(v.arms) > 0
  /\ Len(v.counts) = Len(v.arms) /\ Len(v.values_arr) = Len(v.arms)

\* C14, as claimed: an accepted contract snapshot replaces the state:
\* epsilon is the snapshot's clamped into [0, 1] (0 when not finite), slots
\* is arms in the same order, and each arm has pulls = its count and
\* total_reward = average * count, 0 when the count is 0 or the average is
\* not finite.
C14_Original_LoadReplacesState ==
  (Returned("load") /\ AcceptedContract(call.value)) =>
    LET v == call.value
    IN  /\ epsilon = ClampedEpsilon(v.epsilon)
        /\ slots = v.arms
        /\ \A i \in 1..Len(v.arms) :
             /\ v.arms[i] \in DOMAIN values
             /\ values[v.arms[i]].pulls = v.counts[i]
             /\ values[v.arms[i]].total =
                  (IF v.counts[i] = 0 \/ NonFinite(v.values_arr[i]) THEN Fin(0)
                   ELSE f64_mul_u32(v.values_arr[i], v.counts[i]))

\* C14, amended: as claimed, except that an arm listed more than once takes
\* the count and average of its last index, and that the total is also 0
\* when average * count is not finite.
C14_LoadReplacesState ==
  (Returned("load") /\ AcceptedContract(call.value)) =>
    LET v == call.value
        last(i) == \A j \in 1..Len(v.arms) : v.arms[j] = v.arms[i] => j <= i
        product(i) == f64_mul_u32(v.values_arr[i], v.counts[i])
    IN  /\ epsilon = ClampedEpsilon(v.epsilon)
        /\ slots = v.arms
        /\ DOMAIN values = {v.arms[i] : i \in 1..Len(v.arms)}
        /\ \A i \in 1..Len(v.arms) :
             last(i) =>
               /\ values[v.arms[i]].pulls = v.counts[i]
               /\ values[v.arms[i]].total =
                    (IF v.counts[i] = 0 \/ NonFinite(v.values_arr[i]) \/ NonFinite(product(i))
                     THEN Fin(0) ELSE product(i))

\* an accepted snapshot with an epsilon that is not finite and an average
\* whose product with the count is beyond f64 replaced a bandit that had
\* statistics
C14_Witness ==
  /\ Returned("load") /\ AcceptedContract(call.value)
  /\ NonFinite(call.value.epsilon) /\ epsilon = Fin(0)
  /\ DOMAIN old.values # {}
  /\ slots # old.slots
  /\ \E i \in 1..Len(call.value.arms) :
       /\ call.value.counts[i] > 0
       /\ call.value.values_arr[i].k = "fin" /\ call.value.values_arr[i].v > 0
       /\ values[call.value.arms[i]] = Stat(call.value.counts[i], Fin(0))

\* the state is that of RemindBandit::default() before any call
FromDefault == ncalls = 0 /\ self_ = DefaultBandit

\* a load has just returned that accepted its input, in either form
AcceptedLoad ==
  /\ Returned("load")
  /\ \/ AcceptedContract(call.value)
     \/ ~IsContract(call.value) /\ IsLegacy(call.value)

\* epsilon is finite and within [0, 1]
EpsilonValid == epsilon.k \in {"fin", "nzero"} /\ epsilon.v >= 0 /\ epsilon.v <= One

\* C15: epsilon is finite and within [0, 1] after every decide and after
\* every load that accepts its input (below 0 becomes 0, above 1 becomes 1,
\* not finite becomes 0); from the default bandit it is so in every state
\* reached by decide, feedback, snapshot and load.
C15_EpsilonStaysValid ==
  /\ [](Returned("decide") => (EpsilonValid /\ epsilon = ClampedEpsilon(old.epsilon)))
  /\ [](AcceptedLoad => (EpsilonValid /\ epsilon = ClampedEpsilon(call.value.epsilon)))
  /\ (FromDefault => []EpsilonValid)

\* decide ran on a bandit constructed with an epsilon that is not a number
C15_Witness ==
  /\ Returned("decide")
  /\ old.epsilon.k = "nan"
  /\ epsilon = Fin(0)

\* C16: slots is never empty after decide or after an accepted load: empty
\* slots when decide runs, or an accepted legacy snapshot without slots,
\* give the default ["morning", "afternoon", "evening"]; from the default
\* bandit slots is non-empty in every state reached by decide, feedback,
\* snapshot and load.
C16_SlotsNeverEmpty ==
  /\ [](Returned("decide") =>
          /\ slots # <<>>
          /\ old.slots = <<>> => slots = <<Morning, Afternoon, Evening>>)
  /\ [](AcceptedLoad =>
          /\ slots # <<>>
          /\ (IsLegacy(call.value) /\ ~IsContract(call.value) /\ call.value.slots = <<>>)
               => slots = <<Morning, Afternoon, Evening>>)
  /\ (FromDefault => [](slots # <<>>))

\* a legacy snapshot without slots was loaded into a bandit with other
\* slots than the default ones
C16_Witness ==
  /\ AcceptedLoad /\ IsLegacy(call.value) /\ ~IsContract(call.value)
  /\ call.value.slots = <<>>
  /\ old.slots # <<Morning, Afternoon, Evening>>
  /\ slots = <<Morning, Afternoon, Evening>>

\* C17: snapshot never exports an invalid number and never changes the
\* bandit: the exported epsilon is the bandit's clamped into [0, 1] (0 when
\* not finite), every exported value is finite, an arm whose stored total is
\* not finite is exported with value 0, and epsilon, slots and values are
\* after snapshot what they were before.
C17_SnapshotIsCleanAndPure ==
  Returned("snapshot") =>
    LET s == call.snapshot
    IN  /\ Unchanged
        /\ s.epsilon = ClampedEpsilon(old.epsilon)
        /\ EpsilonInRange(s.epsilon)
        /\ Len(s.values_arr) = Len(s.arms)
        /\ \A i \in 1..Len(s.arms) :
             /\ s.values_arr[i].k \in {"fin", "nzero"}
             /\ NonFinite(OldStat(s.arms[i]).total) => s.values_arr[i] = Fin(0)

\* snapshot of a bandit whose epsilon is not finite and that has an arm in
\* slots with pulls and an infinite total
C17_Witness ==
  /\ Returned("snapshot")
  /\ NonFinite(old.epsilon)
  /\ call.snapshot.epsilon = Fin(0)
  /\ \E i \in 1..Len(old.slots) :
       /\ OldStat(old.slots[i]).pulls > 0
       /\ OldStat(old.slots[i]).total.k = "pinf"
       /\ call.snapshot.values_arr[i] = Fin(0)

\* the draw of the last decide call is below epsilon
DrawBelowEpsilon == call.draw.k = "fin" /\ call.draw.v < epsilon.v

\* C18, as claimed: decide explores exactly when the draw r in [0, 1) is
\* below epsilon and exploits otherwise: why is ["explore ε"] exactly on
\* explore and ["exploit"] exactly otherwise, so epsilon = 0 never explores
\* and epsilon = 1 always does, and an explore step returns a member of
\* slots.
C18_Original_BranchByDraw ==
  Returned("decide") =>
    /\ (call.decision.why = <<"explore ε">>) <=> DrawBelowEpsilon
    /\ (call.decision.why = <<"exploit">>) <=> ~DrawBelowEpsilon
    /\ epsilon = Fin(0) => call.decision.why # <<"explore ε">>
    /\ epsilon = Fin(One) => call.decision.why = <<"explore ε">>
    /\ call.decision.why = <<"explore ε">> =>
         \E i \in 1..Len(slots) : call.decision.action = Prefix \o slots[i]

\* C18, amended: as claimed, except that on the exploit branch why is
\* ["exploit"] only when some slot has a finite average; when none has,
\* decide returns "remind.none" with why ["invalid rewards"].
C18_BranchByDraw ==
  Returned("decide") =>
    /\ (call.decision.why = <<"explore ε">>) <=> DrawBelowEpsilon
    /\ ~DrawBelowEpsilon =>
         IF \E i \in 1..Len(slots) : is_finite(Average32(slots[i]))
         THEN call.decision.why = <<"exploit">>
         ELSE /\ call.decision.why = <<"invalid rewards">>
              /\ call.decision.action = Prefix \o <<"n", "o", "n", "e">>
    /\ epsilon = Fin(0) => call.decision.why # <<"explore ε">>
    /\ epsilon = Fin(One) => call.decision.why = <<"explore ε">>
    /\ call.decision.why = <<"explore ε">> =>
         \E i \in 1..Len(slots) : call.decision.action = Prefix \o slots[i]

\* decide drew a value that is not below epsilon while no slot had a finite
\* average
C18_Witness ==
  /\ Returned("decide")
  /\ call.draw.v > 0 /\ ~DrawBelowEpsilon
  /\ \A i \in 1..Len(slots) : ~is_finite(Average32(slots[i]))
  /\ call.decision.why = <<"invalid rewards">>

\* decide returned an arm, on the explore or the exploit branch
ChoseArm == Returned("decide") /\ call.decision.why \in {<<"explore ε">>, <<"exploit">>}

\* C19, as claimed: on the explore and on the exploit branch the score of
\* the Decision is the average reward of the chosen arm at the time of the
\* call, total_reward / pulls (0 when never pulled), and the action is
\* "remind." followed by the arm's label.
C19_Original_ScoreIsAverage ==
  ChoseArm =>
    /\ HasPrefix(call.decision.action)
    /\ \E i \in 1..Len(slots) : slots[i] = LabelOf(call.decision.action)
    /\ call.decision.score = Average64(LabelOf(call.decision.action))

\* C19, amended: the score is that average narrowed to f32.
C19_ScoreIsAverageF32 ==
  ChoseArm =>
    /\ HasPrefix(call.decision.action)
    /\ \E i \in 1..Len(slots) : slots[i] = LabelOf(call.decision.action)
    /\ call.decision.score = f64_as_f32(Average64(LabelOf(call.decision.action)))

\* decide explored and returned an arm with several pulls whose average is
\* not an f32 value
C19_Witness ==
  /\ ChoseArm /\ call.decision.why = <<"explore ε">>
  /\ LabelOf(call.decision.action) \in DOMAIN values
  /\ values[LabelOf(call.decision.action)].pulls > 1
  /\ call.decision.score # Average64(LabelOf(call.decision.action))
  /\ call.decision.score # Fin(0)

\* C20: the context does not influence the policy: for the same bandit and
\* the same draws decide returns the same action, score and why for any two
\* contexts (only the echoed context differs), and feedback with the same
\* action and reward gives the same state whatever the context.
C20_ContextIsIgnored ==
  /\ Returned("decide") =>
       \A c \in {"ctx", "other"} :
         LET r == decide(old, c, call.draw, IF call.pick = 0 THEN 1 ELSE call.pick)
         IN  /\ r.ret.action = call.decision.action
             /\ r.ret.score = call.decision.score
             /\ r.ret.why = call.decision.why
             /\ r.ret.context = [some |-> TRUE, v |-> c]
             /\ r.self = self_
  /\ Returned("feedback") =>
       \A c \in {"ctx", "other"} :
         feedback(old, c, call.action, call.reward, pc = "panicked").self = self_

\* decide was called with the second context on a bandit with feedback and
\* echoed it, after a feedback given with the first context
C20_Witness ==
  /\ Returned("decide") /\ call.ctx = "other"
  /\ call.decision.context = [some |-> TRUE, v |-> "other"]
  /\ call.decision.why = <<"exploit">>
  /\ call.decision.score # Fin(0)
  /\ LabelOf(call.decision.action) \in DOMAIN values

\* C21: load tries the decoders in order: the legacy decoder is used only
\* for a value that does not parse as a contract snapshot; a value that
\* parses as one and fails validation is rejected and not retried as legacy;
\* a value the legacy decoder accepts replaces epsilon, slots and values by
\* the sanitized legacy state.
C21_DecodersInOrder ==
  Returned("load") =>
    LET v == call.value
    IN  /\ (IsContract(v) /\ ~AcceptedContract(v)) => Unchanged
        /\ (IsContract(v) /\ AcceptedContract(v)) => slots = v.arms
        /\ (~IsContract(v) /\ IsLegacy(v)) =>
             /\ epsilon = ClampedEpsilon(v.epsilon)
             /\ slots = (IF v.slots = <<>> THEN <<Morning, Afternoon, Evening>> ELSE v.slots)
             /\ values = [l \in DOMAIN v.values_map |->
                            IF NonFinite(v.values_map[l].total)
                            THEN Stat(v.values_map[l].pulls, Fin(0))
                            ELSE v.values_map[l]]

\* a legacy snapshot with statistics and an epsilon below 0 replaced the
\* state of a bandit that had statistics of its own
C21_Witness ==
  /\ Returned("load") /\ ~IsContract(call.value) /\ IsLegacy(call.value)
  /\ call.value.epsilon.v < 0 /\ epsilon = Fin(0)
  /\ DOMAIN call.value.values_map # {} /\ values = call.value.values_map
  /\ DOMAIN old.values # {} /\ old.values # values

\* CAP of examples/bench_feedback.rs (1000 there): the number of arms the
\* example expects feedback to stop at, scaled to the labels of the model
CAP == 3

\* C22: the number of arms is capped: once slots holds CAP labels, feedback
\* that names a new label is rejected and grows neither slots nor the
\* statistics, so slots never exceeds CAP entries under feedback calls.
C22_SlotsCapped ==
  /\ (Returned("feedback") /\ HasPrefix(call.action) /\ Len(old.slots) >= CAP
        /\ \A i \in 1..Len(old.slots) : old.slots[i] # LabelOf(call.action))
       => Unchanged
  /\ Len(old.slots) <= CAP => Len(slots) <= CAP

\* the distance between an arm's restored and original total
ReconstructionError(l) == Abs(RestoredStat(l).total.v - OldStat(l).total.v)

\* the distance between the total of an arm and the f32 nearest to it
F32StorageError(l) == Abs(f64_as_f32(OldStat(l).total).v - OldStat(l).total.v)

\* the distance between the total of an arm and (total / pulls) * pulls
\* computed in f32
F32ReconstructionError(l) ==
  LET t == f64_as_f32(OldStat(l).total).v
      n == OldStat(l).pulls
      avg == RoundDiv(t, n * F32Ulp) * F32Ulp
  IN  Abs(avg * n - OldStat(l).total.v)

\* C23, as claimed: the total reconstructed by snapshot then load differs
\* from the original by strictly less than the error of storing or of
\* reconstructing the same total in f32.
C23_Original_CloserThanF32 ==
  Returned("roundtrip") =>
    \A l \in DOMAIN old.values :
      old.values[l].pulls > 0 =>
        \/ ReconstructionError(l) < F32StorageError(l)
        \/ ReconstructionError(l) < F32ReconstructionError(l)

\* C23, amended: the reconstructed total differs from the original by no
\* more than the rounding of the f64 division times pulls, and not at all
\* when pulls is 1 or the division is exact.
C23_ReconstructionWithinF64Rounding ==
  Returned("roundtrip") =>
    \A l \in DOMAIN old.values :
      old.values[l].pulls > 0 =>
        /\ 2 * ReconstructionError(l) <= old.values[l].pulls
        /\ old.values[l].pulls = 1 => ReconstructionError(l) = 0
        /\ old.values[l].total.v % old.values[l].pulls = 0 => ReconstructionError(l) = 0

\* a round trip changed a total that f32 holds exactly
C23_Witness ==
  /\ Returned("roundtrip")
  /\ \E l \in DOMAIN old.values :
       /\ old.values[l].pulls > 1
       /\ ReconstructionError(l) > 0
       /\ F32StorageError(l) = 0

\* process_ingest has just returned
Cycled == cycle.op = "process_ingest"

\* it was handed a successful fetch
FetchedOk == Cycled /\ cycle.source_result.ok

\* both files were written
FilesWritten == cycle.stats_io = "ok" /\ cycle.state_io = "ok"

\* the last_ok that record_state_error reads from the state file
OldLastOk ==
  IF cycle.state_file.kind = "valid" /\ cycle.state_file.state.mode = cli.mode
  THEN cycle.state_file.state.last_ok
  ELSE NoTime

\* the state file after saving state over cycle.state_file
SavedOver(state) ==
  IF cycle.state_io = "ok" THEN StateFile(state)
  ELSE IF cycle.state_io = "denied" THEN cycle.state_file
  ELSE CorruptStateFile

\* the stats file could not be saved: process_ingest returned that error and
\* left the cursor and the state file alone
StatsSaveFailed ==
  /\ ~cycle.ret.ok
  /\ cycle.ret.err[1] = <<"Failed to save stats">>
  /\ current_cursor = cycle.current_cursor
  /\ state_file = cycle.state_file

\* a successful fetch with a next_cursor that differs from the cursor
FetchedNewCursor ==
  /\ FetchedOk
  /\ cycle.source_result.fetch.next_cursor.some
  /\ cycle.source_result.fetch.next_cursor.v # cycle.current_cursor

\* C24 as stated: process_ingest given a successful fetch with a new
\* next_cursor sets the cursor to it, persists a state with that cursor,
\* last_ok set and last_error cleared, and returns has_more.
C24_Original_AdvancesAndPersists ==
  FetchedNewCursor =>
    /\ current_cursor = cycle.source_result.fetch.next_cursor.v
    /\ state_file = StateFile(IngestState(current_cursor, cli.mode, SomeTime(now), NoError))
    /\ cycle.ret = IngestOk(cycle.source_result.fetch.has_more)

\* C24: process_ingest given a successful fetch with a new next_cursor, once
\* the stats file is saved, sets the cursor to next_cursor; when the state file
\* is saved too it holds that cursor, last_ok set and last_error cleared, and
\* has_more is returned; when saving the state file fails the error is
\* returned and the cursor stays advanced; when saving the stats file fails
\* that error is returned and neither the cursor nor the state file changes.
C24_AdvancesAndPersists ==
  FetchedNewCursor =>
    IF cycle.stats_io # "ok" THEN StatsSaveFailed
    ELSE /\ current_cursor = cycle.source_result.fetch.next_cursor.v
         /\ state_file = SavedOver(IngestState(current_cursor, cli.mode, SomeTime(now), NoError))
         /\ cycle.ret = IF cycle.state_io = "ok"
                        THEN IngestOk(cycle.source_result.fetch.has_more)
                        ELSE IngestErr(<<<<"Failed to save state">>, IoError>>)

C24_Witness ==
  /\ FetchedNewCursor
  /\ FilesWritten
  /\ cycle.source_result.fetch.has_more
  /\ cycle.ret = IngestOk(TRUE)
  /\ current_cursor # cycle.current_cursor
  /\ state_file.state.cursor = current_cursor
  /\ cycle.state_file.kind = "valid"
  /\ cycle.state_file.state.last_error.some

\* a successful fetch with has_more and without a next_cursor
FetchedMissingCursor ==
  /\ FetchedOk
  /\ cycle.source_result.fetch.has_more
  /\ ~cycle.source_result.fetch.next_cursor.some

\* C25 as stated: process_ingest given a successful fetch with has_more and
\* no next_cursor returns the protocol error "next_cursor is missing", leaves
\* the cursor unchanged and persists a state with last_error set and the
\* unchanged cursor.
C25_Original_MissingCursorIsRecorded ==
  FetchedMissingCursor =>
    /\ cycle.ret = IngestErr(<<MissingCursorMsg>>)
    /\ current_cursor = cycle.current_cursor
    /\ state_file.kind = "valid"
    /\ state_file.state.last_error = SomeError(MissingCursorMsg)
    /\ state_file.state.cursor = cycle.current_cursor

\* C25: process_ingest given a successful fetch with has_more and no
\* next_cursor leaves the cursor unchanged; once the stats file is saved it
\* returns the protocol error "next_cursor is missing" and saves a state with
\* the unchanged cursor, the last_ok of the state file and last_error set, and
\* a failure of that save changes nothing in the result; when saving the stats
\* file fails that error is returned instead and no state is saved.
C25_MissingCursorIsRecorded ==
  FetchedMissingCursor =>
    IF cycle.stats_io # "ok" THEN StatsSaveFailed
    ELSE /\ cycle.ret = IngestErr(<<MissingCursorMsg>>)
         /\ current_cursor = cycle.current_cursor
         /\ state_file = SavedOver(IngestState(cycle.current_cursor, cli.mode, OldLastOk,
                                               SomeError(MissingCursorMsg)))

C25_Witness ==
  /\ FetchedMissingCursor
  /\ FilesWritten
  /\ cycle.ret = IngestErr(<<MissingCursorMsg>>)
  /\ state_file.kind = "valid"
  /\ state_file.state.last_error = SomeError(MissingCursorMsg)
  /\ state_file.state.cursor = 1
  /\ current_cursor = 1

\* a successful fetch whose next_cursor is the cursor
FetchedSameCursor ==
  /\ FetchedOk
  /\ cycle.source_result.fetch.next_cursor = SomeCursor(cycle.current_cursor)

\* C26 as stated: with has_more a next_cursor equal to the cursor gives the
\* protocol error "Stalled cursor", an unchanged cursor and a persisted state
\* with last_error set; without has_more it is a success.
C26_Original_StalledCursorIsRecorded ==
  FetchedSameCursor =>
    IF cycle.source_result.fetch.has_more
    THEN /\ cycle.ret = IngestErr(<<StalledCursorMsg(cycle.current_cursor)>>)
         /\ current_cursor = cycle.current_cursor
         /\ state_file.kind = "valid"
         /\ state_file.state.last_error.some
    ELSE cycle.ret = IngestOk(FALSE)

\* C26: process_ingest given a successful fetch whose next_cursor is the
\* cursor leaves the cursor unchanged; once the stats file is saved, with
\* has_more it returns the protocol error "Stalled cursor" and saves a state
\* with last_error set (a failure of that save changes nothing in the result),
\* and without has_more it saves a state with last_ok set and last_error
\* cleared and returns Ok(false), or the error of that save; when saving the
\* stats file fails that error is returned and no state is saved.
C26_StalledCursorIsRecorded ==
  FetchedSameCursor =>
    IF cycle.stats_io # "ok" THEN StatsSaveFailed
    ELSE IF cycle.source_result.fetch.has_more
    THEN /\ cycle.ret = IngestErr(<<StalledCursorMsg(cycle.current_cursor)>>)
         /\ current_cursor = cycle.current_cursor
         /\ state_file = SavedOver(IngestState(cycle.current_cursor, cli.mode, OldLastOk,
                                     SomeError(StalledCursorMsg(cycle.current_cursor))))
    ELSE /\ cycle.ret = IF cycle.state_io = "ok" THEN IngestOk(FALSE)
                        ELSE IngestErr(<<<<"Failed to save state">>, IoError>>)
         /\ current_cursor = cycle.current_cursor
         /\ state_file = SavedOver(IngestState(cycle.current_cursor, cli.mode, SomeTime(now),
                                               NoError))

C26_Witness ==
  /\ FetchedSameCursor
  /\ FilesWritten
  /\ cycle.source_result.fetch.has_more
  /\ cycle.ret = IngestErr(<<StalledCursorMsg(1)>>)
  /\ state_file.kind = "valid"
  /\ state_file.state.last_error.some
  /\ state_file.state.last_ok.some

\* the same next_cursor without has_more was accepted
C26_WitnessAccepted ==
  /\ FetchedSameCursor
  /\ FilesWritten
  /\ ~cycle.source_result.fetch.has_more
  /\ cycle.ret = IngestOk(FALSE)
  /\ current_cursor = 1

\* a Chronik run, under way or ended
InChronikRun == cli.mode = "Chronik" /\ ipc # "idle"

\* what holds at every moment of a Chronik run
BatchesBounded ==
  InChronikRun =>
    /\ fetches <= cli.max_batches
    /\ batches_processed <= cli.max_batches
    /\ (cli.max_batches = 0 => fetches = 0 /\ ~Cycled)
    /\ (Cycled /\ ~cycle.ret.ok => ipc = "err")
    /\ (Cycled /\ cycle.ret.ok /\ ~cycle.ret.has_more => ipc = "ok")
    /\ (ipc = "ok" => \/ batches_processed >= cli.max_batches
                      \/ Cycled /\ cycle.ret = IngestOk(FALSE))
    /\ (ipc = "err" => Cycled /\ ~cycle.ret.ok)

\* C27: a Chronik run fetches at most max_batches batches (none when
\* max_batches is 0), stops at max_batches, at a batch without has_more or at
\* an error of process_ingest, and always ends.
C27_RunIsBounded == [](BatchesBounded) /\ ((ipc = "chronik") ~> (ipc \in {"ok", "err"}))

\* a run that stopped at max_batches while the server had more
C27_Witness ==
  /\ InChronikRun
  /\ ipc = "ok"
  /\ cli.max_batches = MaxBatches
  /\ batches_processed = MaxBatches
  /\ fetches = MaxBatches
  /\ cycle.ret = IngestOk(TRUE)

\* the rule for event domains: 1 to DOMAIN_MAX characters, no dot at either
\* end, and every label between dots 1 to LABEL_MAX ASCII letters, digits or
\* hyphens with a letter or digit at both ends
DomainRule(d) ==
  /\ Len(d) \in 1..DOMAIN_MAX
  /\ d[1] # "." /\ d[Len(d)] # "."
  /\ \A i \in 1..Len(d) : d[i] \in {"a", "-", "."}
  /\ \A i \in 1..Len(d) :
       d[i] # "." =>
         \* the label around position i: from j to k
         LET j == CHOOSE x \in 1..i :
                    /\ \A y \in x..i : d[y] # "."
                    /\ (x = 1 \/ d[x - 1] = ".")
             k == CHOOSE x \in i..Len(d) :
                    /\ \A y \in i..x : d[y] # "."
                    /\ (x = Len(d) \/ d[x + 1] = ".")
         IN  k - j + 1 <= LABEL_MAX /\ d[j] = "a" /\ d[k] = "a"
  /\ \A i \in 1..(Len(d) - 1) : ~(d[i] = "." /\ d[i + 1] = ".")

\* C28: is_valid_event_domain(d) is true exactly when d follows the rule for
\* event domains, in heimlern-core and in the command line tool alike.
C28_BothFollowTheRule ==
  valid.done => valid.core = DomainRule(domain) /\ valid.cli = DomainRule(domain)

\* propose_adjustment has returned
Proposed == proposed.done /\ ~proposed.ret.panic

\* the patterns analyze_patterns finds in the outcomes (how many, whatever
\* the order)
PatternsFound ==
  analyze_patterns(analyzer, outcomes,
                   CHOOSE order \in Orders(action_keys(outcomes)) : TRUE)

\* the confidence computed for the outcomes
Confidence == confidence_of(outcomes, PatternsFound)

\* C29: propose_adjustment returns None when the outcomes are fewer than
\* min_decisions, when analyze_patterns finds no pattern or when the
\* confidence is below min_confidence; otherwise it returns a proposal with
\* status Proposed, the basis_policy given, decisions_analyzed the number of
\* outcomes and a confidence of at least min_confidence.
C29_ProposalOrNone ==
  Proposed =>
    IF \/ Len(outcomes) < analyzer.min_decisions
       \/ PatternsFound = <<>>
       \/ f32_lt(Confidence, analyzer.min_confidence)
    THEN ~proposed.ret.some
    ELSE /\ proposed.ret.some
         /\ proposed.ret.proposal.status = "Proposed"
         /\ proposed.ret.proposal.basis_policy = proposed.basis_policy
         /\ proposed.ret.proposal.decisions_analyzed = Len(outcomes)
         /\ analyzer.min_confidence.k = "fin"
         /\ proposed.ret.proposal.confidence.k = "fin"
         /\ proposed.ret.proposal.confidence.v >= analyzer.min_confidence.v

\* process_ingest has just recorded an error: a fetch failure or a protocol
\* error
RecordedError ==
  /\ Cycled
  /\ ~cycle.ret.ok
  /\ cycle.ret.err[1] \notin {<<"Failed to save stats">>, <<"Failed to save state">>}

\* the message that was recorded
RecordedMsg ==
  IF cycle.source_result.ok THEN cycle.ret.err[1] ELSE cycle.source_result.err[1]

\* the state file holds the time of the last successful cycle
LastOkIsLastSuccess ==
  state_file.kind = "valid" /\ state_file.state.last_ok = SomeTime(last_success.v)

\* C30 as stated: the state persisted after an error carries the last_ok of
\* the previously persisted state of the same mode, has last_error set and
\* the unchanged cursor, so after any sequence of successful and failed cycles
\* last_ok is the time of the most recent successful cycle.
C30_Original_ErrorKeepsLastOk ==
  /\ RecordedError /\ cycle.state_io = "ok" =>
       state_file = StateFile(IngestState(cycle.current_cursor, cli.mode, OldLastOk,
                                          SomeError(RecordedMsg)))
  /\ last_success.some /\ state_file.kind = "valid" => LastOkIsLastSuccess

\* C30: the state saved after an error carries the last_ok of the state file
\* when that file holds a state of the same mode, and no last_ok when the
\* file is missing, unreadable or of the other mode; it has last_error set and
\* the unchanged cursor. As long as the state file has held a state of one
\* mode since the most recent successful cycle, last_ok is the time of that
\* cycle.
C30_ErrorKeepsLastOk ==
  /\ RecordedError =>
       /\ current_cursor = cycle.current_cursor
       /\ state_file = SavedOver(IngestState(cycle.current_cursor, cli.mode, OldLastOk,
                                             SomeError(RecordedMsg)))
  /\ last_success.some /\ last_success.intact => LastOkIsLastSuccess

\* an error recorded over the state of an earlier successful cycle
C30_Witness ==
  /\ RecordedError
  /\ cycle.state_io = "ok"
  /\ last_success.some
  /\ last_success.intact
  /\ last_success.v < now
  /\ state_file.state.last_ok = SomeTime(last_success.v)
  /\ state_file.state.last_error.some


\* the indices of the outcomes assigned to the group of an action
Group(key) == {i \in 1..Len(outcomes) : outcomes[i].action = SomeAction(key)}

\* the outcome at index i counts as a success: classified Success, or
\* classified Partial or Unknown with the success flag set
CountsAsSuccess(i) ==
  \/ outcomes[i].outcome = "Success"
  \/ outcomes[i].outcome \in {"Partial", "Unknown"} /\ outcomes[i].success

\* the outcome at index i counts as a failure
CountsAsFailure(i) ==
  \/ outcomes[i].outcome = "Failure"
  \/ outcomes[i].outcome \in {"Partial", "Unknown"} /\ ~outcomes[i].success

\* the statistics are the counts of the outcomes at the indices S
CountsOf(stats, S) ==
  /\ stats.successes + stats.failures = stats.total
  /\ stats.total = Cardinality(S)
  /\ stats.successes = Cardinality({i \in S : CountsAsSuccess(i)})
  /\ stats.failures = Cardinality({i \in S : CountsAsFailure(i)})

Aggregated == statistics.op = "aggregate_outcomes" /\ ~statistics.panic

Summarized == statistics.op = "summarize_outcomes" /\ ~statistics.panic

\* C31: in every OutcomeStatistics that aggregate_outcomes or the overall
\* summary produces, successes + failures is total and total is the number of
\* outcomes of the group (the outcomes with that action; all of them for the
\* summary); an outcome counts as a success when it is classified Success, as
\* a failure when it is classified Failure, and by its success flag when it is
\* Partial or Unknown.
C31_StatisticsCountTheGroup ==
  /\ Aggregated =>
       /\ DOMAIN statistics.by_action =
            {outcomes[i].action.v : i \in {j \in 1..Len(outcomes) : outcomes[j].action.some}}
       /\ \A key \in DOMAIN statistics.by_action :
            CountsOf(statistics.by_action[key], Group(key))
  /\ Summarized => CountsOf(statistics.overall, 1..Len(outcomes))

\* two groups were aggregated from outcomes of which one has no action, one
\* is Partial or Unknown and one is a Success whose flag is not set
C31_Witness ==
  /\ Aggregated
  /\ DOMAIN statistics.by_action = {"a", "b"}
  /\ \E i \in 1..Len(outcomes) : ~outcomes[i].action.some
  /\ \E i \in Group("b") : outcomes[i].outcome \in {"Partial", "Unknown"}
  /\ \E i \in Group("a") : outcomes[i].outcome = "Success" /\ ~outcomes[i].success

\* the summary of outcomes of which one is Unknown with the flag set and one
\* is a Failure whose flag is set
C31_WitnessSummary ==
  /\ Summarized
  /\ \E i \in 1..Len(outcomes) : outcomes[i].outcome = "Unknown" /\ outcomes[i].success
  /\ \E i \in 1..Len(outcomes) : outcomes[i].outcome = "Failure" /\ outcomes[i].success


\* no label is at two indices of the sequence
NoLabelTwice(seq) == \A i, j \in 1..Len(seq) : seq[i] = seq[j] => i = j

\* the labels of a sequence of slots
Labels(seq) == {seq[i] : i \in 1..Len(seq)}

\* C32: slots never holds the same label twice in any state reached from the
\* default bandit by decide, feedback, snapshot and load calls, whatever the
\* snapshots given to load (an invariant of the behaviours that start from
\* the default bandit).
C32_SlotsHoldNoLabelTwice == NoLabelTwice(slots)

\* the call that has just returned in the next state is a load that accepted
\* a snapshot whose arms (or, in the legacy form, slots) hold a label twice
LoadedALabelTwice ==
  /\ call'.op = "load"
  /\ \/ AcceptedContract(call'.value) /\ ~NoLabelTwice(call'.value.arms)
     \/ ~IsContract(call'.value) /\ IsLegacy(call'.value)
          /\ ~NoLabelTwice(call'.value.slots)

\* what holds of the code: only a load of such a snapshot brings a label
\* into slots twice; decide, feedback and snapshot never do
C32_OnlyLoadRepeatsALabel ==
  [][(NoLabelTwice(slots) /\ ~LoadedALabelTwice) => NoLabelTwice(slots')]_vars

\* the total load stores for index i of the contract snapshot v: the product
\* of the average and the count, 0 when the count is 0 or the average or the
\* product is not finite
LoadedTotal(v, i) ==
  IF \/ v.counts[i] = 0
     \/ NonFinite(v.values_arr[i])
     \/ NonFinite(f64_mul_u32(v.values_arr[i], v.counts[i]))
  THEN Fin(0)
  ELSE f64_mul_u32(v.values_arr[i], v.counts[i])

\* the arm named at index i of v has the count and the total of that index
ArmIsIndex(v, i) ==
  /\ v.arms[i] \in DOMAIN values
  /\ values[v.arms[i]].pulls = v.counts[i]
  /\ values[v.arms[i]].total = LoadedTotal(v, i)

\* C33: after load accepts a contract snapshot, for every index i the arm
\* named arms[i] has pulls = counts[i] and total_reward = values[i] *
\* counts[i] (0 where load stores 0 for a product that is not finite), also
\* when arms lists a label at several indices.
C33_EveryIndexIsLoaded ==
  (Returned("load") /\ AcceptedContract(call.value)) =>
    \A i \in 1..Len(call.value.arms) : ArmIsIndex(call.value, i)

\* what holds of the code: every index is loaded when no label is listed
\* twice
C33_EveryIndexOfDistinctArmsIsLoaded ==
  (Returned("load") /\ AcceptedContract(call.value) /\ NoLabelTwice(call.value.arms)) =>
    \A i \in 1..Len(call.value.arms) : ArmIsIndex(call.value, i)

\* every label with statistics is a slot
StatisticsHaveSlots == DOMAIN values \subseteq Labels(slots)

\* C34: every label that has an entry in the statistics map is a member of
\* slots, in every state reached from the default bandit by decide, feedback
\* and load calls with contract or legacy snapshots, so that snapshot, which
\* exports the slots, drops no statistics (an invariant of the behaviours
\* that start from the default bandit).
C34_StatisticsHaveSlots == StatisticsHaveSlots

\* the call that has just returned in the next state is a load that accepted
\* a legacy snapshot
LoadedLegacy ==
  call'.op = "load" /\ ~IsContract(call'.value) /\ IsLegacy(call'.value)

\* what holds of the code: only the load of a legacy snapshot leaves
\* statistics without a slot; decide, feedback and the load of a contract
\* snapshot never do
C34_OnlyLegacyLoadLeavesStatistics ==
  [][(StatisticsHaveSlots /\ ~LoadedLegacy) => StatisticsHaveSlots']_vars

====
